---- MODULE Spec2Model ----
(***************************************************************************)
(* Model of the virtual staging pipeline of the taste repository: the      *)
(* prompt builder, the staging quality gate, the image provider wrapper,   *)
(* the batch submission route and the in-process StagingQueue; and of the  *)
(* taste and match scoring engine (taste score, buyer and listing vibe     *)
(* vectors, vector match score).                                           *)
(*                                                                         *)
(* Text is modelled as a sequence of words (punctuation dropped); the      *)
(* substring test String.includes is containment of a contiguous word      *)
(* sequence, and toLowerCase is applied word by word.                      *)
(***************************************************************************)
EXTENDS Integers, Sequences, FiniteSets, TLC

(***************************************************************************)
(* Bounds of the model.                                                    *)
(***************************************************************************)
MaxJobs == 2
MaxQueued == 3
MaxConcurrency == 2
MaxRequests == 2
MaxCount == 2
MaxEvents == 3
MaxWeight == 2
MaxSwipes == 2

(***************************************************************************)
(* Text helpers.                                                           *)
(***************************************************************************)
RECURSIVE Flatten(_)
Flatten(ss) == IF ss = << >> THEN << >> ELSE Head(ss) \o Flatten(Tail(ss))

\* Array.prototype.join(", ") of phrases: the words of the phrases in order.
Join(phrases) == Flatten(phrases)

\* String.prototype.includes on word sequences.
Includes(text, needle) ==
  \E i \in 0..(Len(text) - Len(needle)) :
    \A k \in 1..Len(needle) : text[i + k] = needle[k]

UpperWords ==
  ("ABSOLUTELY" :> "absolutely") @@
  ("ARCHITECTURAL" :> "architectural") @@
  ("Add" :> "add") @@
  ("Allowed" :> "allowed") @@
  ("CHANGES" :> "changes") @@
  ("Change" :> "change") @@
  ("Checklist" :> "checklist") @@
  ("Choose" :> "choose") @@
  ("Classicist" :> "classicist") @@
  ("Composition" :> "composition") @@
  ("Curator" :> "curator") @@
  ("Design" :> "design") @@
  ("Do" :> "do") @@
  ("EDIT" :> "edit") @@
  ("Furniture" :> "furniture") @@
  ("Gallery" :> "gallery") @@
  ("Futurist" :> "futurist") @@
  ("IDs" :> "ids") @@
  ("If" :> "if") @@
  ("Industrialist" :> "industrialist") @@
  ("DOWN" :> "down") @@
  ("KNOCK" :> "knock") @@
  ("Keep" :> "keep") @@
  ("Layout" :> "layout") @@
  ("Kitchen" :> "kitchen") @@
  ("LED" :> "led") @@
  ("MUST" :> "must") @@
  ("Monarch" :> "monarch") @@
  ("Mural" :> "mural") @@
  ("NO" :> "no") @@
  ("Naturalist" :> "naturalist") @@
  ("Nomad" :> "nomad") @@
  ("ONLY" :> "only") @@
  ("Photorealistic" :> "photorealistic") @@
  ("Please" :> "please") @@
  ("Preserve" :> "preserve") @@
  ("Purist" :> "purist") @@
  ("Room" :> "room") @@
  ("Vibe" :> "vibe") @@
  ("Visual" :> "visual") @@
  ("WALL" :> "wall") @@
  ("Walls" :> "walls")

\* String.prototype.toLowerCase, word by word.
ToLowerWord(w) == IF w \in DOMAIN UpperWords THEN UpperWords[w] ELSE w

ToLowerCase_identity(text) == text

ToLowerCase(text) == [i \in 1..Len(text) |-> ToLowerWord(text[i])]

(***************************************************************************)
(* shared/tasteAlgorithm.ts: the vibe taxonomy.                            *)
(***************************************************************************)
VIBES ==
  << "Purist", "Industrialist", "Monarch", "Futurist",
     "Naturalist", "Curator", "Classicist", "Nomad" >>

VibeSet == {VIBES[i] : i \in 1..Len(VIBES)}

VIBE_DEFINITIONS ==
  [ v \in VibeSet |->
    CASE v = "Purist" ->
      [ keywords |->
          << <<"minimalist">>, <<"white">>, <<"clean", "lines">>, <<"seamless">>, <<"hidden", "storage">>, <<"zero", "clutter">>, <<"monochromatic">> >>,
        visualCues |->
          << <<"all-white", "interiors">>, <<"handleless", "cabinetry">>, <<"negative", "space">>, <<"matte", "natural", "finishes">> >>,
        psychology |->
          << <<"discipline">>, <<"clarity">>, <<"focus">> >>,
        forbiddenChanges |->
          << <<"visual", "clutter">>, <<"busy", "patterns">>, <<"heavy", "ornamentation">> >>,
        stagingDo |->
          << <<"keep", "compositions", "minimal">>, <<"use", "soft", "neutrals", "and", "light", "oak">>, <<"preserve", "clear", "walkways">> >> ]
      [] v = "Industrialist" ->
      [ keywords |->
          << <<"loft">>, <<"warehouse">>, <<"exposed", "brick">>, <<"concrete">>, <<"steel", "beams">>, <<"ductwork">>, <<"raw">>, <<"factory">> >>,
        visualCues |->
          << <<"high", "ceilings">>, <<"metal", "finishes">>, <<"open", "mechanicals">>, <<"large", "grid", "windows">> >>,
        psychology |->
          << <<"authenticity">>, <<"strength">>, <<"bones">> >>,
        forbiddenChanges |->
          << <<"hiding", "structural", "elements">>, <<"ornate", "traditional", "decor">>, <<"overly", "polished", "finishes">> >>,
        stagingDo |->
          << <<"highlight", "existing", "raw", "textures">>, <<"layer", "leather", "and", "steel", "accents">>, <<"use", "moody", "contrast">> >> ]
      [] v = "Monarch" ->
      [ keywords |->
          << <<"penthouse">>, <<"gold">>, <<"marble">>, <<"velvet">>, <<"crystal">>, <<"grand">>, <<"opulent">>, <<"skyline">> >>,
        visualCues |->
          << <<"black", "and", "gold", "contrast">>, <<"statement", "chandeliers">>, <<"high-gloss", "stone">>, <<"grand", "scale", "pieces">> >>,
        psychology |->
          << <<"status">>, <<"power">>, <<"dominance">> >>,
        forbiddenChanges |->
          << <<"budget-looking", "finishes">>, <<"small-scale", "casual", "decor">>, <<"flat", "low-contrast", "styling">> >>,
        stagingDo |->
          << <<"use", "premium", "textures">>, <<"compose", "with", "bold", "symmetry">>, <<"add", "elegant", "statement", "lighting">> >> ]
      [] v = "Futurist" ->
      [ keywords |->
          << <<"smart", "home">>, <<"tech">>, <<"neon">>, <<"led">>, <<"glass">>, <<"chrome">>, <<"sleek">>, <<"automated">> >>,
        visualCues |->
          << <<"integrated", "lighting">>, <<"reflective", "surfaces">>, <<"clean", "geometry">>, <<"high-tech", "accents">> >>,
        psychology |->
          << <<"innovation">>, <<"speed">>, <<"efficiency">> >>,
        forbiddenChanges |->
          << <<"rustic", "motifs">>, <<"traditional", "ornament">>, <<"visual", "noise">> >>,
        stagingDo |->
          << <<"use", "sleek", "silhouettes">>, <<"introduce", "integrated", "LED", "mood", "lighting">>, <<"favor", "glossy", "controlled", "finishes">> >> ]
      [] v = "Naturalist" ->
      [ keywords |->
          << <<"sanctuary">>, <<"biophilic">>, <<"plants">>, <<"green">>, <<"retreat">>, <<"wood">>, <<"stone">>, <<"natural", "light">> >>,
        visualCues |->
          << <<"organic", "textures">>, <<"living", "greenery">>, <<"earthy", "tones">>, <<"indoor-outdoor", "continuity">> >>,
        psychology |->
          << <<"grounding">>, <<"peace">>, <<"wellness">> >>,
        forbiddenChanges |->
          << <<"harsh", "artificial", "lighting">>, <<"synthetic-heavy", "surfaces">>, <<"cold", "sterile", "palettes">> >>,
        stagingDo |->
          << <<"layer", "natural", "materials">>, <<"add", "biophilic", "greenery">>, <<"use", "warm", "daylight", "mood">> >> ]
      [] v = "Curator" ->
      [ keywords |->
          << <<"art">>, <<"gallery">>, <<"eclectic">>, <<"bold">>, <<"color">>, <<"statement">>, <<"unique">>, <<"mural">> >>,
        visualCues |->
          << <<"gallery", "walls">>, <<"sculptural", "pieces">>, <<"mixed", "eras">>, <<"expressive", "color", "composition">> >>,
        psychology |->
          << <<"expression">>, <<"storytelling">>, <<"uniqueness">> >>,
        forbiddenChanges |->
          << <<"generic", "cookie-cutter", "styling">>, <<"muted", "monotony">>, <<"removing", "statement", "pieces">> >>,
        stagingDo |->
          << <<"anchor", "with", "statement", "art">>, <<"mix", "textures", "intentionally">>, <<"create", "focal", "vignettes">> >> ]
      [] v = "Classicist" ->
      [ keywords |->
          << <<"historic">>, <<"traditional">>, <<"estate">>, <<"molding">>, <<"library">>, <<"wood", "paneling">>, <<"heritage">> >>,
        visualCues |->
          << <<"symmetry">>, <<"antique", "accents">>, <<"dark", "woods">>, <<"timeless", "molding", "details">> >>,
        psychology |->
          << <<"legacy">>, <<"history">>, <<"respect">> >>,
        forbiddenChanges |->
          << <<"ultra-modern", "disruptions">>, <<"novelty", "finishes">>, <<"breaking", "formal", "balance">> >>,
        stagingDo |->
          << <<"maintain", "formal", "symmetry">>, <<"use", "timeless", "upholstery", "and", "woods">>, <<"honor", "architectural", "heritage">> >> ]
      [] OTHER ->
      [ keywords |->
          << <<"boho">>, <<"travel">>, <<"collected">>, <<"rugs">>, <<"texture">>, <<"earth", "tones">>, <<"global">>, <<"warm">> >>,
        visualCues |->
          << <<"layered", "textiles">>, <<"handcrafted", "decor">>, <<"earthy", "palette">>, <<"relaxed", "low-profile", "seating">> >>,
        psychology |->
          << <<"freedom">>, <<"warmth">>, <<"experience">> >>,
        forbiddenChanges |->
          << <<"overly", "formal", "layouts">>, <<"sterile", "minimalism">>, <<"single-texture", "flatness">> >>,
        stagingDo |->
          << <<"layer", "textiles", "and", "artisanal", "pieces">>, <<"use", "warm", "earthy", "tones">>, <<"build", "relaxed", "lived-in", "vignettes">> >> ] ]

(***************************************************************************)
(* server/modules/staging/promptBuilder.ts                                 *)
(***************************************************************************)
HARD_CONSTRAINT_BLOCK ==
  << "EDIT", "the", "provided", "photo", "to", "virtually",
     "stage", "this", "exact", "room", "Preserve", "camera",
     "viewpoint", "and", "lens", "exactly", "as", "captured",
     "Do", "not", "change", "architecture", "layout", "room",
     "boundaries", "or", "any", "structural", "surface", "Add",
     "or", "remove", "movable", "furniture", "and", "decor",
     "only" >>

CHECKLIST_BLOCK ==
  << "Checklist", "Preserve", "camera", "angle", "and", "perspective",
     "Preserve", "walls", "floors", "ceiling", "windows", "doors",
     "trim", "built-ins", "Do", "not", "repaint", "or",
     "change", "materials", "Keep", "lighting", "natural", "and",
     "consistent", "with", "the", "original", "photo", "Add",
     "staging", "items", "only", "keep", "scale", "realistic",
     "Photorealistic", "realistic", "shadows", "no", "surreal", "artifacts" >>

\* Variant of BASE_NEGATIVE_PROMPT: "change layout" is missing from the list.
BASE_NEGATIVE_PROMPT_noLayout ==
  << "renovation", "remodel", "construction", "carpentry", "new", "window",
     "new", "door", "remove", "wall", "add", "wall",
     "change", "flooring", "change", "ceiling",
     "built-in", "cabinetry", "structural", "beams", "demolition" >>

BASE_NEGATIVE_PROMPT ==
  << "renovation", "remodel", "construction", "carpentry", "new", "window",
     "new", "door", "remove", "wall", "add", "wall",
     "change", "flooring", "change", "ceiling", "change", "layout",
     "built-in", "cabinetry", "structural", "beams", "demolition" >>


\* STAGING_CATALOG is imported from ./stagingCatalog; two entries stand
\* for the catalog lines "<id> - <label> (<category>)".
STAGING_CATALOG ==
  << [id |-> "sofa_01", label |-> <<"neutral", "sofa">>, category |-> "seating"],
     [id |-> "rug_01", label |-> <<"wool", "rug">>, category |-> "rugs"] >>

CatalogLine(item) == <<item.id>> \o item.label \o <<item.category>>

\* The suffix of the other version of this file, in lower case.
STRICT_SUFFIX_lowerCase == <<"absolutely", "no", "architectural", "changes">>

STRICT_SUFFIX ==
  << "ABSOLUTELY", "NO", "ARCHITECTURAL", "CHANGES", "no", "perspective",
     "change", "no", "lens", "change", "no", "layout", "change",
     "no", "structural", "change" >>

\* An exception thrown by a call, as the outcome of the call.
Throws(error) == [kind |-> "threw", error |-> error]

TypeError == Throws("TypeError")

\* For a vibeId that is no key of VIBE_DEFINITIONS, def is undefined and
\* def.psychology throws a TypeError.
buildStagingPrompt(vibeId, roomType, optionalRoomNotes, strictness) ==
  IF vibeId \notin DOMAIN VIBE_DEFINITIONS THEN TypeError ELSE
  LET def == VIBE_DEFINITIONS[vibeId]
      designPrinciples == Join(def.psychology)
      furnitureKit == Join(def.stagingDo)
      visualKeywords == Join(def.visualCues)
      catalogLines ==
        Flatten([i \in 1..Len(STAGING_CATALOG) |-> CatalogLine(STAGING_CATALOG[i])])
      strictCatalogGuard ==
        IF strictness = "strict"
        THEN <<"Do", "not", "add", "any", "objects", "not", "listed", "in",
               "Allowed", "staging", "items">>
        ELSE << >>
      prompt ==
        HARD_CONSTRAINT_BLOCK
        \o <<"Room", "type", roomType>>
        \o (IF optionalRoomNotes # << >>
            THEN <<"Room", "notes">> \o optionalRoomNotes ELSE << >>)
        \o <<"Vibe", vibeId>>
        \o <<"Design", "principles">> \o designPrinciples
        \o <<"Furniture", "kit">> \o furnitureKit
        \o <<"Visual", "keywords">> \o visualKeywords
        \o <<"Allowed", "additions", "only", "furniture", "decor", "textiles",
             "lighting", "fixtures", "wall", "art", "plants", "rugs",
             "accessories">>
        \o <<"Do", "not", "modify", "floors", "walls", "windows", "doors",
             "ceiling", "built-ins", "cabinetry", "or", "any", "structural",
             "element">>
        \o <<"Composition", "photorealistic", "natural", "lighting", "interior",
             "photography", "coherent", "scale", "realistic", "shadows">>
        \o <<"Allowed", "staging", "items", "MUST", "choose", "ONLY", "from",
             "these", "IDs", "do", "not", "invent", "new", "items">>
        \o catalogLines
        \o <<"Choose", "5-8", "items", "maximum", "If", "unsure", "prefer",
             "safer", "neutral", "options">>
        \o strictCatalogGuard
        \o CHECKLIST_BLOCK
      vibeNegative == Join(def.forbiddenChanges)
      strictSuffix == IF strictness = "strict" THEN STRICT_SUFFIX ELSE << >>
      negativePrompt == BASE_NEGATIVE_PROMPT \o vibeNegative \o strictSuffix
  IN [prompt |-> prompt, negativePrompt |-> negativePrompt]

(***************************************************************************)
(* server/modules/staging/stagingQualityGate.ts                            *)
(***************************************************************************)
REQUIRED_CONCEPTS ==
  << [name |-> "camera_preservation",
      all |-> {<<"camera">>},
      any |-> {<<"angle">>, <<"perspective">>, <<"viewpoint">>}],
     [name |-> "architecture_preservation",
      all |-> {<<"preserve">>},
      any |-> {<<"walls">>, <<"windows">>, <<"doors">>, <<"ceiling">>, <<"built-ins">>}],
     [name |-> "no_renovation",
      all |-> {<<"do", "not">>},
      any |-> {<<"renovate">>, <<"remodel">>, <<"structural">>}],
     [name |-> "allowed_additions_only",
      all |-> {<<"only">>},
      any |-> {<<"furniture">>, <<"decor">>, <<"rugs">>, <<"lighting">>, <<"art">>, <<"plants">>}] >>

RENOVATION_TERMS ==
  << <<"knock", "down", "wall">>, <<"knock", "down", "walls">>,
     <<"add", "skylight">>, <<"new", "skylight">>, <<"change", "cabinetry">>,
     <<"upgrade", "finishes">>, <<"demolition">>, <<"remove", "wall">>,
     <<"add", "wall">>, <<"new", "window">>, <<"new", "door">>,
     <<"change", "flooring">>, <<"change", "layout">> >>

\* The flag list, in the order the code pushes the flags.  A flag
\* "<kind>:<argument>" is the word sequence <<kind>> \o argument.
assessPromptForBannedTerms(prompt, negativePrompt) ==
  LET lowerPrompt == ToLowerCase(prompt)
      lowerNegative == ToLowerCase(negativePrompt)
      blockFlags ==
        IF ~Includes(prompt, HARD_CONSTRAINT_BLOCK)
        THEN << <<"missing_hard_constraint_block">> >>
        ELSE << >>
      conceptFlag(concept) ==
        LET hasAll == \A token \in concept.all : Includes(lowerPrompt, token)
            hasAny == \E token \in concept.any : Includes(lowerPrompt, token)
        IN IF ~hasAll \/ ~hasAny
           THEN << <<"missing_required_concept", concept.name>> >>
           ELSE << >>
      conceptFlags ==
        Flatten([i \in 1..Len(REQUIRED_CONCEPTS) |-> conceptFlag(REQUIRED_CONCEPTS[i])])
      termFlag(term) ==
        IF Includes(lowerPrompt, term)
        THEN << <<"renovation_keyword_in_prompt">> \o term >>
        ELSE << >>
      termFlags ==
        Flatten([i \in 1..Len(RENOVATION_TERMS) |-> termFlag(RENOVATION_TERMS[i])])
      negativeFlags ==
        IF ~Includes(lowerNegative, <<"no", "architectural", "changes">>)
           /\ ~Includes(lowerNegative, <<"change", "layout">>)
        THEN << <<"negative_prompt_not_strict_enough">> >>
        ELSE << >>
  IN blockFlags \o conceptFlags \o termFlags \o negativeFlags

\* providerMeta is NoMeta (undefined) or a record of the fields the provider
\* wrapper sets.
NoMeta == [none |-> TRUE]

assessOutputMetadataIfAvailable(providerMeta) ==
  IF providerMeta = NoMeta THEN << >>
  ELSE (IF "safetyBlocked" \in DOMAIN providerMeta /\ providerMeta.safetyBlocked
        THEN << <<"provider_safety_blocked">> >> ELSE << >>)
       \o (IF "geometryChanged" \in DOMAIN providerMeta /\ providerMeta.geometryChanged
           THEN << <<"geometry_change_suspected">> >> ELSE << >>)

(***************************************************************************)
(* server/vertexImagegen.ts and stagingProvider: the image provider.       *)
(***************************************************************************)
Null == "<null>"
Undefined == "<undefined>"

\* What generateStagedImage can do: return an ImageGenerationResult, or
\* rethrow a quota / rate limit error of the Vertex client.
ImagegenOutcomes ==
  { [kind |-> "return", success |-> TRUE, imageData |-> "iVBOR", error |-> Undefined,
     safetyBlocked |-> FALSE],
    [kind |-> "return", success |-> FALSE, imageData |-> "",
     error |-> "Image generation blocked by safety filter.", safetyBlocked |-> TRUE],
    [kind |-> "throw", success |-> FALSE, imageData |-> "",
     error |-> "429 Resource exhausted", safetyBlocked |-> FALSE] }

\* `data:image/png;base64,${imageData}`
DataUrl(imageData) == <<"data:image/png;base64", imageData>>

NoUrl == <<Null>>

\* generateStagedImageWithProvider: the value it resolves with, or the
\* message of the error it rejects with.
generateStagedImageWithProvider(result) ==
  IF result.kind = "throw"
  THEN [ok |-> FALSE, message |-> result.error]
  ELSE IF ~result.success \/ result.imageData = ""
       THEN [ok |-> FALSE,
             message |-> IF result.error \notin {Undefined, ""}
                         THEN result.error ELSE "staging_generation_failed"]
       ELSE [ok |-> TRUE,
             outputImageUrl |-> DataUrl(result.imageData),
             providerMeta |-> [safetyBlocked |-> result.safetyBlocked]]

(***************************************************************************)
(* State.                                                                  *)
(***************************************************************************)
VARIABLES
  now,            \* Date.now()
  lastRequestAt,  \* stagingQueue.ts: let lastRequestAt
  concurrency,    \* StagingQueue.concurrency
  running,        \* StagingQueue.running
  queue,          \* StagingQueue.queue
  jobState,       \* StagingQueue.jobState (Map jobId -> JobState)
  proc,           \* the process(job) invocations: position and locals
  stagingJobs,    \* table staging_jobs (id -> row)
  stagingAssets,  \* table staging_assets (set of rows)
  req,            \* the POST /api/staging/stage handlers
  nextJobId,      \* crypto.randomUUID(): job ids handed out so far
  providerCalls,  \* per job, the calls of generateStagedImageWithProvider made
  lastCallEnd,    \* when the latest of these calls settled (NoTime: none has)
  delayMs,        \* ApiQueue.delayMs
  apiQueue,       \* ApiQueue.queue: the tasks pushed, by the number of their enqueue call
  apiRunning,     \* ApiQueue.running
  processNext,    \* the processNext invocation past its guard: position and locals
  tasks,          \* per enqueue call: invocations of fn, state of the promise returned
  retry,          \* a withRetry invocation: position, parameters and locals
  promptCall,     \* a call of buildStagingPrompt: arguments and outcome
  gateCall,       \* a call of assessPromptForBannedTerms: arguments and outcome
  scoreCall,      \* a call of computeTasteScore: arguments and outcome
  buyerCall,      \* the latest call of computeBuyerVibeVector: events and outcome
  matchCall,      \* a call of computeVectorMatchScore: arguments and outcome
  listingCall,    \* a call of computeListingVibeVector: argument and outcome
  planCall,       \* a call of generateHeuristicPlan: arguments and outcome
  swipe,          \* the POST /api/buyer/swipe handlers: position and locals
  buyers,         \* table buyers (the ids)
  swipeEvents,    \* table swipe_events (the rows, in the order of insertion)
  leads,          \* table leads (the rows, in the order of insertion)
  notifications   \* table notifications (the rows, in the order of insertion)

vars == << now, lastRequestAt, concurrency, running, queue, jobState, proc,
           stagingJobs, stagingAssets, req, nextJobId, providerCalls,
           lastCallEnd, delayMs, apiQueue, apiRunning, processNext, tasks, retry,
           promptCall, gateCall, scoreCall, buyerCall, matchCall, listingCall,
           planCall, swipe, buyers, swipeEvents, leads, notifications >>

\* The state of the staging module and of an ApiQueue.
stagingVars == << lastRequestAt, concurrency, running, queue, jobState, proc,
                  stagingJobs, stagingAssets, req, nextJobId, providerCalls,
                  lastCallEnd >>

apiQueueVars == << delayMs, apiQueue, apiRunning, processNext, tasks >>

\* The calls of the prompt builder, the quality gate and the scoring engine.
callVars ==
  << promptCall, gateCall, scoreCall, buyerCall, matchCall, listingCall, planCall >>

\* The buyer swipe handlers and the tables they write.
buyerVars == << swipe, buyers, swipeEvents, leads, notifications >>

MIN_INTERVAL_MS == 8000

\* Granularity of the clock.
TimeStep == MIN_INTERVAL_MS \div 2

NoTime == 0 - 1

JobIds == 1..MaxJobs
Requests == 1..MaxRequests

ROOM_TYPES == {"living", "bed", "kitchen", "bath", "office", "dining", "other"}

TerminalStatuses == {"done", "failed", "flagged"}

ESCALATION == <<"ABSOLUTELY", "NO", "ARCHITECTURAL", "CHANGES">>

DbErrorMessage == "db_error"

Min(a, b) == IF a < b THEN a ELSE b

(***************************************************************************)
(* Inputs of the batch submission.                                         *)
(***************************************************************************)
\* The multipart forms submitted: fields roomType, vibes (not valid JSON,
\* JSON that is no array, or an array), roomNotes and strictness.
FormInputs ==
  { [ roomType |-> "living", vibes |-> [kind |-> "array", items |-> <<"Purist">>],
      roomNotes |-> << >>, strictness |-> "normal" ],
    [ roomType |-> "bed", vibes |-> [kind |-> "array", items |-> <<"Nomad", "Purist">>],
      roomNotes |-> <<"bright", "corner", "unit">>, strictness |-> "strict" ],
    [ roomType |-> "living", vibes |-> [kind |-> "array", items |-> <<"Curator">>],
      roomNotes |-> <<"Please", "knock", "down", "wall">>, strictness |-> "normal" ],
    [ roomType |-> "garage", vibes |-> [kind |-> "array", items |-> <<"Purist">>],
      roomNotes |-> << >>, strictness |-> "normal" ],
    [ roomType |-> "living", vibes |-> [kind |-> "badjson", items |-> << >>],
      roomNotes |-> << >>, strictness |-> "normal" ],
    [ roomType |-> "living", vibes |-> [kind |-> "notarray", items |-> << >>],
      roomNotes |-> << >>, strictness |-> "normal" ],
    [ roomType |-> "living", vibes |-> [kind |-> "array", items |-> <<"Brutalist">>],
      roomNotes |-> << >>, strictness |-> "strict" ] }

(***************************************************************************)
(* StagingQueue.updateJob.  A patch is a record holding the fields given.  *)
(***************************************************************************)
\* Variant of updateJobState: status: patch.status || "queued".
updateJobState_statusReset(js, jobId, patch) ==
  LET status == IF "status" \in DOMAIN patch THEN patch.status ELSE "queued"
      error ==
        IF "error" \in DOMAIN patch /\ patch.error \notin {Null, ""}
        THEN patch.error ELSE Undefined
  IN [k \in (DOMAIN js) \cup {jobId} |->
        IF k = jobId THEN [status |-> status, error |-> error] ELSE js[k]]

\* The synchronous part: the in-memory JobState written for the patch.
\*   status: patch.status || current?.status || "queued"
\*   error: patch.error || undefined, qualityFlags: patch.qualityFlags || undefined
updateJobState(js, jobId, patch) ==
  LET status ==
        IF "status" \in DOMAIN patch THEN patch.status
        ELSE IF jobId \in DOMAIN js THEN js[jobId].status
        ELSE "queued"
      error ==
        IF "error" \in DOMAIN patch /\ patch.error \notin {Null, ""}
        THEN patch.error ELSE Undefined
      base == [status |-> status, error |-> error]
      state ==
        IF "qualityFlags" \in DOMAIN patch
        THEN base @@ [qualityFlags |-> patch.qualityFlags]
        ELSE base
  IN [k \in (DOMAIN js) \cup {jobId} |-> IF k = jobId THEN state ELSE js[k]]

\* Variants of updateJobRow: the update reaches no row; the update has no
\* where clause.
updateJobRow_noRow(rows, jobId, patch) == rows

updateJobRow_allRows(rows, jobId, patch) ==
  [k \in DOMAIN rows |->
     [f \in DOMAIN rows[k] |-> IF f \in DOMAIN patch THEN patch[f] ELSE rows[k][f]]]

\* Variant of updateJobRow: the status of the patch is not written.
updateJobRow_keepStatus(rows, jobId, patch) ==
  [k \in DOMAIN rows |->
     IF k = jobId
     THEN [f \in DOMAIN rows[k] |->
             IF f \in DOMAIN patch /\ f # "status" THEN patch[f] ELSE rows[k][f]]
     ELSE rows[k]]

\* The awaited part: db.update(stagingJobs).set({...patch}).where(id = jobId).
updateJobRow(rows, jobId, patch) ==
  [k \in DOMAIN rows |->
     IF k = jobId
     THEN [f \in DOMAIN rows[k] |->
             IF f \in DOMAIN patch THEN patch[f] ELSE rows[k][f]]
     ELSE rows[k]]

(***************************************************************************)
(* StagingQueue.pump: starts process(next) for the jobs at the head of the *)
(* queue while running < concurrency.  process runs synchronously up to    *)
(* its first await, inside updateJob(jobId, {status: "running"}).          *)
(***************************************************************************)
RunningPatch == [status |-> "running", error |-> Null]

NewProcess(job) ==
  [ pc |-> "updRunning", job |-> job, attempt |-> 0, outputUrl |-> NoUrl,
    providerMeta |-> NoMeta, usedNegativePrompt |-> job.negativePrompt,
    lastError |-> "", wakeAt |-> 0, patch |-> RunningPatch ]

\* Variant of pumpCount: while (this.running <= this.concurrency ...).
pumpCount_offByOne(run, q) ==
  IF run <= concurrency THEN Min(concurrency - run + 1, Len(q)) ELSE 0

pumpCount(run, q) == IF run < concurrency THEN Min(concurrency - run, Len(q)) ELSE 0

RECURSIVE StartAll(_, _)
StartAll(js, jobs) ==
  IF jobs = << >> THEN js
  ELSE StartAll(updateJobState(js, Head(jobs).jobId, RunningPatch), Tail(jobs))

\* Variant of pump: the job is read from the head of the queue and left there.
pump_peek(run, q, js, pr) ==
  LET k == pumpCount(run, q)
      started == SubSeq(q, 1, k)
      ids == {started[i].jobId : i \in 1..k}
      jobOf(id) == CHOOSE job \in {started[i] : i \in 1..k} : job.jobId = id
  IN /\ running' = run + k
     /\ queue' = q
     /\ jobState' = StartAll(js, started)
     /\ proc' = [id \in (DOMAIN pr) \cup ids |->
                   IF id \in ids THEN NewProcess(jobOf(id)) ELSE pr[id]]

\* Variant of pump: this.running++ is missing.
pump_uncounted(run, q, js, pr) ==
  LET k == pumpCount(run, q)
      started == SubSeq(q, 1, k)
      ids == {started[i].jobId : i \in 1..k}
      jobOf(id) == CHOOSE job \in {started[i] : i \in 1..k} : job.jobId = id
  IN /\ running' = run
     /\ queue' = SubSeq(q, k + 1, Len(q))
     /\ jobState' = StartAll(js, started)
     /\ proc' = [id \in (DOMAIN pr) \cup ids |->
                   IF id \in ids THEN NewProcess(jobOf(id)) ELSE pr[id]]

\* Variant of pump: const next = this.queue.pop()!.
pump_lifo(run, q, js, pr) ==
  LET k == pumpCount(run, q)
      started == [i \in 1..k |-> q[Len(q) + 1 - i]]
      ids == {started[i].jobId : i \in 1..k}
      jobOf(id) == CHOOSE job \in {started[i] : i \in 1..k} : job.jobId = id
  IN /\ running' = run + k
     /\ queue' = SubSeq(q, 1, Len(q) - k)
     /\ jobState' = StartAll(js, started)
     /\ proc' = [id \in (DOMAIN pr) \cup ids |->
                   IF id \in ids THEN NewProcess(jobOf(id)) ELSE pr[id]]

pump(run, q, js, pr) ==
  LET k == pumpCount(run, q)
      started == SubSeq(q, 1, k)
      ids == {started[i].jobId : i \in 1..k}
      jobOf(id) == CHOOSE job \in {started[i] : i \in 1..k} : job.jobId = id
  IN /\ running' = run + k
     /\ queue' = SubSeq(q, k + 1, Len(q))
     /\ jobState' = StartAll(js, started)
     /\ proc' = [id \in (DOMAIN pr) \cup ids |->
                   IF id \in ids THEN NewProcess(jobOf(id)) ELSE pr[id]]

\* StagingQueue.enqueue
enqueue(job) ==
  pump(running,
       Append(queue, job),
       [k \in (DOMAIN jobState) \cup {job.jobId} |->
          IF k = job.jobId THEN [status |-> "queued", error |-> Undefined]
          ELSE jobState[k]],
       proc)

(***************************************************************************)
(* POST /api/staging/stage                                                 *)
(***************************************************************************)
\* No form received yet.
NoFields ==
  [ roomType |-> "", vibes |-> [kind |-> "none", items |-> << >>],
    roomNotes |-> << >>, strictness |-> "" ]

\* fields is the form the handler parsed (kept for the record of the request).
IdleRequest ==
  [ pc |-> "idle", fields |-> NoFields, roomType |-> "", roomNotes |-> << >>,
    strictness |-> "", selectedVibes |-> << >>, jobs |-> << >>, response |-> 0 ]

\* Jobs the running handlers have still to create (the model creates at most
\* as many jobs as Init provides ids for, the domain of providerCalls).
RECURSIVE SumPending(_)
SumPending(rs) ==
  IF rs = {} THEN 0
  ELSE LET r == CHOOSE x \in rs : TRUE
       IN (IF req[r].pc = "inserting"
           THEN Len(req[r].selectedVibes) - Len(req[r].jobs) ELSE 0)
          + SumPending(rs \ {r})

PendingInserts == SumPending(Requests)

Respond(r, code) == req' = [req EXCEPT ![r].pc = "responded", ![r].response = code]

\* The handler returns res.status(code) before any job is created.
Reject(r, fields, code) ==
  req' = [req EXCEPT ![r].pc = "responded", ![r].response = code,
                     ![r].fields = fields]

\* Variant of ValidRoomType: the room type is not checked.
ValidRoomType_any(roomType) == TRUE

\* ROOM_TYPES.includes(roomType)
ValidRoomType(roomType) == roomType \in ROOM_TYPES

\* Lines 118-133: selectedVibes, or the rejection of the vibes field.  A
\* vibes field that is absent (or empty) selects all of VIBES.
SelectVibes(vibes) ==
  IF vibes.kind = "absent" THEN [ok |-> TRUE, items |-> VIBES]
  ELSE IF vibes.kind # "array" THEN [ok |-> FALSE, items |-> << >>]
  ELSE IF \E i \in 1..Len(vibes.items) : vibes.items[i] \notin VibeSet
       THEN [ok |-> FALSE, items |-> << >>]
       ELSE [ok |-> TRUE, items |-> vibes.items]

\* From the start of the handler to the first await db.insert.
PostStage(r, fields) ==
  /\ req[r].pc = "idle"
  /\ \A earlier \in 1..(r - 1) : req[earlier].pc # "idle"
  /\ LET roomType == fields.roomType
         selected == SelectVibes(fields.vibes)
         roomNotes == fields.roomNotes
         strictnessField == fields.strictness
     IN
     IF ~ValidRoomType(roomType)
     THEN Reject(r, fields, 400)
     ELSE IF ~selected.ok
     THEN Reject(r, fields, 400)
     ELSE IF selected.items = << >>
     THEN Reject(r, fields, 202)
     ELSE /\ (nextJobId - 1) + PendingInserts + Len(selected.items)
               <= Cardinality(DOMAIN providerCalls)
          /\ req' = [req EXCEPT ![r] =
                       [ pc |-> "inserting", fields |-> fields,
                         roomType |-> roomType,
                         roomNotes |-> roomNotes,
                         strictness |-> IF strictnessField = "strict"
                                        THEN "strict" ELSE "normal",
                         selectedVibes |-> selected.items, jobs |-> << >>,
                         response |-> 0 ]]
  /\ UNCHANGED << now, lastRequestAt, concurrency, running, queue, jobState, proc,
                  stagingJobs, stagingAssets, nextJobId, providerCalls, lastCallEnd >>
  /\ UNCHANGED << apiQueueVars, retry, callVars, buyerVars >>

\* Variant of NewJobRow: the row gets the id of the job as its batch id.
NewJobRow_ownBatch(jobId, batchId, vibeId, built) ==
  [ batchId |-> jobId, vibeId |-> vibeId, status |-> "queued",
    outputImageUrl |-> NoUrl, negativePromptUsed |-> built.negativePrompt,
    qualityFlags |-> << >>, error |-> Null ]

\* The values of db.insert(stagingJobs) (lines 146-161); the batch id is
\* the number of the request.
NewJobRow(jobId, batchId, vibeId, built) ==
  [ batchId |-> batchId, vibeId |-> vibeId, status |-> "queued",
    outputImageUrl |-> NoUrl, negativePromptUsed |-> built.negativePrompt,
    qualityFlags |-> << >>, error |-> Null ]

\* One iteration of the loop over selectedVibes: db.insert returns or
\* throws; on return the job is enqueued, and the next iteration starts or
\* the handler responds.
InsertJob(r, ok) ==
  /\ req[r].pc = "inserting"
  /\ LET jobId == nextJobId
         vibeId == req[r].selectedVibes[Len(req[r].jobs) + 1]
         built == buildStagingPrompt(vibeId, req[r].roomType, req[r].roomNotes,
                                     req[r].strictness)
         row == NewJobRow(jobId, r, vibeId, built)
         job == [ jobId |-> jobId, prompt |-> built.prompt,
                  negativePrompt |-> built.negativePrompt, vibeId |-> vibeId ]
         jobs == Append(req[r].jobs, [jobId |-> jobId, vibeId |-> vibeId,
                                      status |-> "queued"])
     IN /\ nextJobId' = nextJobId + 1
        /\ IF ok
           THEN /\ stagingJobs' = [k \in (DOMAIN stagingJobs) \cup {jobId} |->
                                     IF k = jobId THEN row ELSE stagingJobs[k]]
                /\ enqueue(job)
                /\ req' = [req EXCEPT
                             ![r].jobs = jobs,
                             ![r].pc = IF Len(jobs) = Len(req[r].selectedVibes)
                                       THEN "responded" ELSE "inserting",
                             ![r].response = IF Len(jobs) = Len(req[r].selectedVibes)
                                             THEN 202 ELSE 0]
           ELSE /\ Respond(r, 400)
                /\ UNCHANGED << running, queue, jobState, proc, stagingJobs >>
  /\ UNCHANGED << now, lastRequestAt, concurrency, stagingAssets, providerCalls,
                  lastCallEnd >>
  /\ UNCHANGED << apiQueueVars, retry, callVars, buyerVars >>

(***************************************************************************)
(* StagingQueue.process, one action per await.                             *)
(***************************************************************************)
SetProc(j, p) == proc' = [proc EXCEPT ![j] = p]

\* process has returned ("resolved") or thrown ("rejected"): its locals are
\* gone, the promise is settled.
Settled(j, how) == [NewProcess(proc[j].job) EXCEPT !.pc = how, !.patch = << >>]

At(j, pc) == j \in DOMAIN proc /\ proc[j].pc = pc

\* The patches process passes to updateJob.
PromptFlaggedPatch(promptFlags) ==
  [ status |-> "flagged", qualityFlags |-> promptFlags,
    error |-> "Prompt failed staging quality gate." ]

FailedPatch(lastError) ==
  [ status |-> "failed",
    error |-> IF lastError # "" THEN lastError
              ELSE "Staging generation failed after retry." ]

OutputFlaggedPatch(outputFlags, outputUrl) ==
  [ status |-> "flagged", qualityFlags |-> outputFlags,
    outputImageUrl |-> outputUrl,
    error |-> "Output flagged by staging quality gate." ]

\* Variant of DonePatch: the output is not recorded.
DonePatch_noOutput(outputUrl) ==
  [status |-> "done", qualityFlags |-> << >>, error |-> Null]

DonePatch(outputUrl) ==
  [ status |-> "done", outputImageUrl |-> outputUrl, qualityFlags |-> << >>,
    error |-> Null ]

\* Variant of GateRejects: the prompt gate lets every prompt through.
GateRejects_never(promptFlags) == FALSE

\* if (promptFlags.length > 0) { ...; return; }
GateRejects(promptFlags) == Len(promptFlags) > 0

\* Variant of Escalate: the clause replaces the negative prompt.
Escalate_clauseOnly(negativePrompt) == ESCALATION

\* Variant of Escalate: a blind retry.
Escalate_blind(negativePrompt) == negativePrompt

\* `${job.negativePrompt}, ABSOLUTELY NO ARCHITECTURAL CHANGES`
Escalate(negativePrompt) == negativePrompt \o ESCALATION

\* Variant of MAX_ATTEMPTS: a second retry.
MAX_ATTEMPTS_three == 2 + 1

\* while (attempt < 2 && !outputUrl)
MAX_ATTEMPTS == 2

\* updateJob(jobId, patch) up to its await.
BeginUpdate(j, p, pc, patch) ==
  /\ jobState' = updateJobState(jobState, j, patch)
  /\ SetProc(j, [p EXCEPT !.pc = pc, !.patch = patch])

\* The provider is called: generateStagedImageWithProvider({..., negativePrompt}).
\* calls is the log of the provider calls so far.
StartCall(j, p, calls) ==
  /\ SetProc(j, [p EXCEPT !.pc = "calling", !.wakeAt = 0, !.patch = << >>])
  /\ providerCalls' = [calls EXCEPT ![j] =
       Append(@, [ negativePrompt |-> p.usedNegativePrompt, settled |-> "pending",
                   message |-> "", outputImageUrl |-> NoUrl,
                   providerMeta |-> NoMeta ])]
  /\ UNCHANGED jobState

\* Lines 116-120: the spacing from lastRequestAt (lra), then the call.
Throttle(j, p, lra, calls) ==
  LET elapsed == now - lra
  IN IF elapsed < MIN_INTERVAL_MS
     THEN /\ SetProc(j, [p EXCEPT !.pc = "sleeping", !.patch = << >>,
                                  !.wakeAt = now + (MIN_INTERVAL_MS - elapsed)])
          /\ providerCalls' = calls
          /\ UNCHANGED jobState
     ELSE StartCall(j, p, calls)

\* Lines 137-161, after the while loop has ended.
AfterLoop(j, p) ==
  IF p.outputUrl = NoUrl
  THEN BeginUpdate(j, p, "updFailed", FailedPatch(p.lastError))
  ELSE LET outputFlags == assessOutputMetadataIfAvailable(p.providerMeta)
       IN IF Len(outputFlags) > 0
          THEN BeginUpdate(j, p, "updOutputFlagged",
                           OutputFlaggedPatch(outputFlags, p.outputUrl))
          ELSE BeginUpdate(j, p, "updDone", DonePatch(p.outputUrl))

\* The test of the while loop (line 109) and what follows up to the next
\* await: the escalation of the second attempt, the spacing and the call, or
\* the end of the loop.
LoopTest(j, p, lra, calls) ==
  IF p.attempt < MAX_ATTEMPTS /\ p.outputUrl = NoUrl
  THEN IF p.attempt = 1
       THEN LET used == Escalate(p.job.negativePrompt)
            IN /\ BeginUpdate(j, [p EXCEPT !.usedNegativePrompt = used],
                              "updNegative", [negativePromptUsed |-> used])
               /\ providerCalls' = calls
       ELSE Throttle(j, p, lra, calls)
  ELSE /\ AfterLoop(j, p)
       /\ providerCalls' = calls

\* Variant of Caught: the catch block counts the attempt and drops the error.
Caught_swallow(p, message) == [p EXCEPT !.attempt = p.attempt + 1]

\* The catch block (lines 130-134); the caller sets lastRequestAt.
Caught(p, message) ==
  [p EXCEPT !.lastError = IF message # "" THEN message ELSE "generation_failed",
            !.attempt = p.attempt + 1]

\* await updateJob(status: "running") settles; the prompt gate; the first
\* iteration of the loop up to its await.
UpdateRunningSettles(j, ok) ==
  /\ At(j, "updRunning")
  /\ IF ok
     THEN /\ stagingJobs' = updateJobRow(stagingJobs, j, proc[j].patch)
          /\ LET promptFlags == assessPromptForBannedTerms(proc[j].job.prompt,
                                                           proc[j].job.negativePrompt)
             IN IF GateRejects(promptFlags)
                THEN /\ BeginUpdate(j, proc[j], "updPromptFlagged",
                                    PromptFlaggedPatch(promptFlags))
                     /\ UNCHANGED providerCalls
                ELSE LoopTest(j, proc[j], lastRequestAt, providerCalls)
     ELSE /\ SetProc(j, Settled(j, "rejected"))
          /\ UNCHANGED << stagingJobs, jobState, providerCalls >>
  /\ UNCHANGED << now, lastRequestAt, concurrency, running, queue, stagingAssets,
                  req, nextJobId, lastCallEnd >>
  /\ UNCHANGED << apiQueueVars, retry, callVars, buyerVars >>

\* sleep(MIN_INTERVAL_MS - elapsed) is over.
Wake(j) ==
  /\ At(j, "sleeping")
  /\ now >= proc[j].wakeAt
  /\ StartCall(j, proc[j], providerCalls)
  /\ UNCHANGED << now, lastRequestAt, concurrency, running, queue, stagingJobs,
                  stagingAssets, req, nextJobId, lastCallEnd >>
  /\ UNCHANGED << apiQueueVars, retry, callVars, buyerVars >>

\* The provider call settles with what generateStagedImage did.
ProviderSettles(j, result) ==
  /\ At(j, "calling")
  /\ LET generated == generateStagedImageWithProvider(result)
         n == Len(providerCalls[j])
         calls == [providerCalls EXCEPT ![j][n] =
                     IF generated.ok
                     THEN [@ EXCEPT !.settled = "resolved",
                                    !.outputImageUrl = generated.outputImageUrl,
                                    !.providerMeta = generated.providerMeta]
                     ELSE [@ EXCEPT !.settled = "rejected",
                                    !.message = generated.message]]
     IN /\ lastRequestAt' = now
        /\ lastCallEnd' = now
        /\ IF generated.ok
           THEN LoopTest(j, [proc[j] EXCEPT
                               !.outputUrl = generated.outputImageUrl,
                               !.providerMeta = generated.providerMeta],
                         now, calls)
           ELSE LoopTest(j, Caught(proc[j], generated.message), now, calls)
  /\ UNCHANGED << now, concurrency, running, queue, stagingJobs, stagingAssets,
                  req, nextJobId >>
  /\ UNCHANGED << apiQueueVars, retry, callVars, buyerVars >>

\* await updateJob({negativePromptUsed}) inside the try block settles: the
\* spacing and the call, or the catch block.
UpdateNegativeSettles(j, ok) ==
  /\ At(j, "updNegative")
  /\ IF ok
     THEN /\ stagingJobs' = updateJobRow(stagingJobs, j, proc[j].patch)
          /\ Throttle(j, proc[j], lastRequestAt, providerCalls)
          /\ UNCHANGED lastRequestAt
     ELSE /\ lastRequestAt' = now
          /\ LoopTest(j, Caught(proc[j], DbErrorMessage), now, providerCalls)
          /\ UNCHANGED stagingJobs
  /\ UNCHANGED << now, concurrency, running, queue, stagingAssets, req, nextJobId,
                  lastCallEnd >>
  /\ UNCHANGED << apiQueueVars, retry, callVars, buyerVars >>

\* await updateJob of a final status other than done settles; process returns.
UpdateFinalSettles(j, ok) ==
  /\ j \in DOMAIN proc
  /\ proc[j].pc \in {"updPromptFlagged", "updFailed", "updOutputFlagged"}
  /\ IF ok
     THEN /\ stagingJobs' = updateJobRow(stagingJobs, j, proc[j].patch)
          /\ SetProc(j, Settled(j, "resolved"))
     ELSE /\ SetProc(j, Settled(j, "rejected"))
          /\ UNCHANGED stagingJobs
  /\ UNCHANGED << now, lastRequestAt, concurrency, running, queue, jobState,
                  stagingAssets, req, nextJobId, providerCalls, lastCallEnd >>
  /\ UNCHANGED << apiQueueVars, retry, callVars, buyerVars >>

\* await updateJob(status: "done") settles; db.select is awaited next.
UpdateDoneSettles(j, ok) ==
  /\ At(j, "updDone")
  /\ IF ok
     THEN /\ stagingJobs' = updateJobRow(stagingJobs, j, proc[j].patch)
          /\ SetProc(j, [proc[j] EXCEPT !.pc = "selectRow", !.patch = << >>])
     ELSE /\ SetProc(j, Settled(j, "rejected"))
          /\ UNCHANGED stagingJobs
  /\ UNCHANGED << now, lastRequestAt, concurrency, running, queue, jobState,
                  stagingAssets, req, nextJobId, providerCalls, lastCallEnd >>
  /\ UNCHANGED << apiQueueVars, retry, callVars, buyerVars >>

\* db.select().from(stagingJobs).where(id = jobId) settles.
SelectRowSettles(j, ok) ==
  /\ At(j, "selectRow")
  /\ IF ~ok THEN SetProc(j, Settled(j, "rejected"))
     ELSE IF j \in DOMAIN stagingJobs
          THEN SetProc(j, [proc[j] EXCEPT !.pc = "insertAsset", !.patch = << >>])
          ELSE SetProc(j, Settled(j, "resolved"))
  /\ UNCHANGED << now, lastRequestAt, concurrency, running, queue, jobState,
                  stagingJobs, stagingAssets, req, nextJobId, providerCalls, lastCallEnd >>
  /\ UNCHANGED << apiQueueVars, retry, callVars, buyerVars >>

\* db.insert(stagingAssets) settles; vibeId is the one of the row read.
InsertAssetSettles(j, ok) ==
  /\ At(j, "insertAsset")
  /\ IF ok
     THEN /\ stagingAssets' = stagingAssets \cup
               { [ id |-> Cardinality(stagingAssets) + 1, stagingJobId |-> j,
                   vibeId |-> stagingJobs[j].vibeId,
                   imageUrl |-> proc[j].outputUrl ] }
          /\ SetProc(j, Settled(j, "resolved"))
     ELSE /\ SetProc(j, Settled(j, "rejected"))
          /\ UNCHANGED stagingAssets
  /\ UNCHANGED << now, lastRequestAt, concurrency, running, queue, jobState,
                  stagingJobs, req, nextJobId, providerCalls, lastCallEnd >>
  /\ UNCHANGED << apiQueueVars, retry, callVars, buyerVars >>

\* Variant of Finally: finally decrements running and does not pump.
Finally_noPump(j) ==
  /\ j \in DOMAIN proc
  /\ proc[j].pc \in {"resolved", "rejected"}
  /\ running' = running - 1
  /\ proc' = [proc EXCEPT ![j].pc = IF proc[j].pc = "resolved"
                                    THEN "finishedResolved" ELSE "finishedRejected"]
  /\ UNCHANGED << now, lastRequestAt, concurrency, queue, jobState, stagingJobs,
                  stagingAssets, req, nextJobId, providerCalls, lastCallEnd >>
  /\ UNCHANGED << apiQueueVars, retry, callVars, buyerVars >>

\* .catch(...).finally(() => { this.running--; this.pump(); })
Finally(j) ==
  /\ j \in DOMAIN proc
  /\ proc[j].pc \in {"resolved", "rejected"}
  /\ pump(running - 1, queue, jobState,
          [proc EXCEPT ![j].pc = IF proc[j].pc = "resolved"
                                 THEN "finishedResolved" ELSE "finishedRejected"])
  /\ UNCHANGED << now, lastRequestAt, concurrency, stagingJobs, stagingAssets,
                  req, nextJobId, providerCalls, lastCallEnd >>
  /\ UNCHANGED << apiQueueVars, retry, callVars, buyerVars >>

(***************************************************************************)
(* Time.                                                                   *)
(***************************************************************************)
Waiting == \E j \in DOMAIN proc : proc[j].pc = "sleeping" /\ proc[j].wakeAt > now

\* A process is at an await whose continuation reads Date.now() for the
\* spacing (line 116).
AboutToRead == \E j \in DOMAIN proc : proc[j].pc \in {"updRunning", "updNegative"}

\* The clock advances.  Only the time between lastRequestAt and the next
\* reading of the clock, up to MIN_INTERVAL_MS, and the time a sleep waits
\* for, change what the queue does; other lapses of time are left out.
Tick ==
  /\ (AboutToRead /\ now - lastRequestAt < MIN_INTERVAL_MS) \/ Waiting
  /\ now' = now + TimeStep
  /\ UNCHANGED << lastRequestAt, concurrency, running, queue, jobState, proc,
                  stagingJobs, stagingAssets, req, nextJobId, providerCalls, lastCallEnd >>
  /\ UNCHANGED << apiQueueVars, retry, callVars, buyerVars >>

(***************************************************************************)
(* server/routes.ts: class ApiQueue.  A task is known by the number of the *)
(* enqueue call that pushed it.                                            *)
(***************************************************************************)
MaxTasks == 4

TaskIds == 1..MaxTasks

\* constructor(delayMs = 2000); geminiQueue and vertexQueue use 500.
DelayChoices == {500, 2000}

ApiTimeStep == 250

IdleProcessNext == [pc |-> "idle", task |-> 0, wakeAt |-> 0]

\* The task pushed by enqueue: not invoked, the promise returned pending.
NewTask == [invoked |-> 0, promise |-> "pending"]

\* `await task`: the operand is the function pushed by enqueue, not a call
\* of it, so the await resumes with the function and the task stays as it is.
AwaitTask(task) == task

\* processNext() up to its first await, called with the running flag run
\* and the queue q.
ProcessNextCall(run, q) ==
  IF run \/ q = << >>
  THEN /\ apiRunning' = run
       /\ apiQueue' = q
       /\ processNext' = IF run THEN processNext ELSE IdleProcessNext
  ELSE /\ apiRunning' = TRUE
       /\ apiQueue' = Tail(q)
       /\ processNext' = [pc |-> "awaitTask", task |-> Head(q), wakeAt |-> 0]

\* enqueue(fn): the executor of the promise pushes the task and calls
\* processNext.
ApiEnqueue ==
  LET t == Cardinality(DOMAIN tasks) + 1
  IN /\ t \in TaskIds
     /\ tasks' = [k \in (DOMAIN tasks) \cup {t} |->
                    IF k = t THEN NewTask ELSE tasks[k]]
     /\ ProcessNextCall(apiRunning, Append(apiQueue, t))
     /\ UNCHANGED << now, delayMs, stagingVars, retry, callVars, buyerVars >>

\* `await task` resumes; the finally block starts the timer of delayMs.
AwaitTaskSettles ==
  /\ processNext.pc = "awaitTask"
  /\ tasks' = [tasks EXCEPT ![processNext.task] = AwaitTask(@)]
  /\ processNext' = [processNext EXCEPT !.pc = "delay", !.wakeAt = now + delayMs]
  /\ UNCHANGED << now, delayMs, apiQueue, apiRunning, stagingVars, retry, callVars, buyerVars >>

\* The timer fires: this.running = false; this.processNext().
DelayOver ==
  /\ processNext.pc = "delay"
  /\ now >= processNext.wakeAt
  /\ ProcessNextCall(FALSE, apiQueue)
  /\ UNCHANGED << now, delayMs, tasks, stagingVars, retry, callVars, buyerVars >>

ApiTick ==
  /\ processNext.pc = "delay"
  /\ now < processNext.wakeAt
  /\ now' = now + ApiTimeStep
  /\ UNCHANGED << apiQueueVars, stagingVars, retry, callVars, buyerVars >>

(***************************************************************************)
(* server/routes.ts: withRetry(fn, maxRetries = 3, baseDelay = 5000).      *)
(***************************************************************************)
MaxRetriesBound == 3

BaseDelayChoices == {1000, 5000}

\* An error object without a message.
NoMessage == <<Undefined>>

\* What a call of fn settles with: a value, or an error with a message (an
\* error object may have none).
FnOutcomes ==
  { [ok |-> TRUE, message |-> NoMessage] } \cup
  { [ok |-> FALSE, message |-> m] :
      m \in { <<"429", "Too", "Many", "Requests">>,
              <<"quota", "exceeded", "for", "project">>,
              <<"8", "Resource", "exhausted">>,
              <<"Quota", "Exceeded">>,
              <<"403", "permission", "denied">>,
              NoMessage } }

\* A value returned or an error thrown is known by the call of fn it came
\* from.
NoError == [kind |-> "none", message |-> NoMessage, call |-> 0]

IdleRetry ==
  [ pc |-> "idle", maxRetries |-> 0, baseDelay |-> 0, attempt |-> 0,
    lastError |-> NoError, invocations |-> 0, outcomes |-> << >>,
    waits |-> << >>, result |-> NoError ]

\* Variant of is429: every error is taken for a rate limit error.
is429_always(message) == TRUE

\* err.message?.includes("429") || ...includes("quota") || ...includes("Resource exhausted")
is429(message) ==
  /\ message # NoMessage
  /\ \/ Includes(message, <<"429">>)
     \/ Includes(message, <<"quota">>)
     \/ Includes(message, <<"Resource", "exhausted">>)

\* Variant of RetryDelay: the delay grows by baseDelay with each attempt.
RetryDelay_linear(baseDelay, attempt) == baseDelay * (attempt + 1)

\* baseDelay * Math.pow(2, attempt)
RetryDelay(baseDelay, attempt) == baseDelay * (2 ^ attempt)

\* The test of the for loop and what follows up to the next await: fn is
\* called, or the loop is over and lastError is thrown.
RetryLoop(r) ==
  IF r.attempt <= r.maxRetries
  THEN [r EXCEPT !.pc = "calling", !.invocations = @ + 1]
  ELSE [r EXCEPT !.pc = "thrown", !.result = r.lastError]

RetryInvoke(maxRetries, baseDelay) ==
  /\ retry.pc = "idle"
  /\ retry' = RetryLoop([IdleRetry EXCEPT !.maxRetries = maxRetries,
                                          !.baseDelay = baseDelay])
  /\ UNCHANGED << now, apiQueueVars, stagingVars, callVars, buyerVars >>

\* await fn() settles: return its value, or the catch block.
RetryFnSettles(outcome) ==
  /\ retry.pc = "calling"
  /\ LET r == [retry EXCEPT !.outcomes = Append(@, outcome)]
         err == [kind |-> "error", message |-> outcome.message,
                 call |-> retry.invocations]
         value == [kind |-> "value", message |-> NoMessage,
                   call |-> retry.invocations]
     IN retry' =
          IF outcome.ok
          THEN [r EXCEPT !.pc = "returned", !.result = value]
          ELSE IF ~is429(err.message) \/ r.attempt = r.maxRetries
               THEN [r EXCEPT !.pc = "thrown", !.lastError = err, !.result = err]
               ELSE [r EXCEPT !.pc = "sleeping", !.lastError = err,
                              !.waits = Append(@, RetryDelay(r.baseDelay, r.attempt))]
  /\ UNCHANGED << now, apiQueueVars, stagingVars, callVars, buyerVars >>

\* The timer of the delay fires: attempt++ and the next iteration.
RetryTimerFires ==
  /\ retry.pc = "sleeping"
  /\ retry' = RetryLoop([retry EXCEPT !.attempt = @ + 1])
  /\ UNCHANGED << now, apiQueueVars, stagingVars, callVars, buyerVars >>

(***************************************************************************)
(* Calls of the pure functions: the prompt builder, the quality gate and   *)
(* the scoring engine of shared/tasteAlgorithm.ts.  A call is a record of  *)
(* its arguments and of its outcome: pending, a returned value or an       *)
(* exception.                                                              *)
(***************************************************************************)
serverVars == << now, stagingVars, apiQueueVars, retry >>

Pending == [kind |-> "pending"]

Returns(value) == [kind |-> "returned", value |-> value]

\* The function is not being called.
NoCall == [input |-> << >>, output |-> [kind |-> "none"]]

CallsIdle ==
  /\ promptCall = NoCall
  /\ gateCall = NoCall
  /\ scoreCall = NoCall
  /\ buyerCall = NoCall
  /\ matchCall = NoCall
  /\ listingCall = NoCall
  /\ planCall = NoCall

\* A vibe id outside VIBES.
UnknownVibe == "Brutalist"

\* The arguments of buildStagingPrompt; optionalRoomNotes and strictness
\* may be left out.
PromptInputs ==
  [ vibeId : VibeSet \cup {UnknownVibe},
    roomType : ROOM_TYPES,
    optionalRoomNotes : {<< >>, <<"bay", "window">>, <<"knock", "down", "wall">>},
    strictness : {Undefined, "normal", "strict"} ]

\* strictness = "normal" is the default of the parameter.
CallBuildStagingPrompt ==
  /\ promptCall.output = Pending
  /\ LET input == promptCall.input
         strictness ==
           IF input.strictness = Undefined THEN "normal" ELSE input.strictness
         built == buildStagingPrompt(input.vibeId, input.roomType,
                                     input.optionalRoomNotes, strictness)
     IN promptCall' =
          [promptCall EXCEPT !.output =
             IF built = TypeError THEN TypeError ELSE Returns(built)]
  /\ UNCHANGED << serverVars, buyerVars, gateCall, scoreCall, buyerCall, matchCall,
                  listingCall, planCall >>

\* What becomes of the pair the builder returned: the submission handler
\* puts it in the job (stagingRoutes.ts:139-169) and process gives the
\* job's prompt and negative prompt to the gate (stagingQueue.ts:93).
GateBuiltPrompt ==
  /\ promptCall.output.kind = "returned"
  /\ gateCall = NoCall
  /\ LET built == promptCall.output.value
     IN gateCall' =
          [ input |-> built,
            output |-> Returns(assessPromptForBannedTerms(built.prompt,
                                                          built.negativePrompt)) ]
  /\ UNCHANGED << serverVars, buyerVars, promptCall, scoreCall, buyerCall, matchCall,
                  listingCall, planCall >>

\* No swipe request has arrived; the tables of the buyers are empty.
SwipeRequests == 1..MaxSwipes

IdleSwipe ==
  [ pc |-> "idle", buyerId |-> "", listingId |-> 0, action |-> "",
    matchScore |-> 0, leadCreated |-> FALSE, response |-> 0 ]

BuyersIdle ==
  /\ swipe = [s \in SwipeRequests |-> IdleSwipe]
  /\ buyers = {}
  /\ swipeEvents = << >>
  /\ leads = << >>
  /\ notifications = << >>

(***************************************************************************)
(* Specification.                                                          *)
(***************************************************************************)
EmptyMap == [k \in {} |-> 0]

\* The process has run for longer than MIN_INTERVAL_MS since the epoch:
\* lastRequestAt = 0 throttles nothing.
StagingInit ==
  /\ now = MIN_INTERVAL_MS
  /\ lastRequestAt = 0
  /\ concurrency \in 1..MaxConcurrency
  /\ running = 0
  /\ queue = << >>
  /\ jobState = EmptyMap
  /\ proc = EmptyMap
  /\ stagingJobs = EmptyMap
  /\ stagingAssets = {}
  /\ req = [r \in Requests |-> IdleRequest]
  /\ nextJobId = 1
  /\ providerCalls = [j \in JobIds |-> << >>]
  /\ lastCallEnd = NoTime

\* No task has been enqueued on the ApiQueue; withRetry has not been called.
ApiQueueIdle ==
  /\ apiQueue = << >>
  /\ apiRunning = FALSE
  /\ processNext = IdleProcessNext
  /\ tasks = EmptyMap

Init ==
  /\ StagingInit
  /\ delayMs = 500
  /\ ApiQueueIdle
  /\ retry = IdleRetry
  /\ CallsIdle
  /\ BuyersIdle

Next ==
  \/ \E r \in Requests, fields \in FormInputs : PostStage(r, fields)
  \/ \E r \in Requests, ok \in BOOLEAN : InsertJob(r, ok)
  \/ \E j \in JobIds, ok \in BOOLEAN : UpdateRunningSettles(j, ok)
  \/ \E j \in JobIds : Wake(j)
  \/ \E j \in JobIds, result \in ImagegenOutcomes : ProviderSettles(j, result)
  \/ \E j \in JobIds, ok \in BOOLEAN : UpdateNegativeSettles(j, ok)
  \/ \E j \in JobIds, ok \in BOOLEAN : UpdateFinalSettles(j, ok)
  \/ \E j \in JobIds, ok \in BOOLEAN : UpdateDoneSettles(j, ok)
  \/ \E j \in JobIds, ok \in BOOLEAN : SelectRowSettles(j, ok)
  \/ \E j \in JobIds, ok \in BOOLEAN : InsertAssetSettles(j, ok)
  \/ \E j \in JobIds : Finally(j)
  \/ Tick

Spec == Init /\ [][Next]_vars

\* The staging module with a single submission.
OneBatchNext ==
  \/ \E fields \in FormInputs : PostStage(1, fields)
  \/ \E ok \in BOOLEAN : InsertJob(1, ok)
  \/ \E j \in JobIds, ok \in BOOLEAN : UpdateRunningSettles(j, ok)
  \/ \E j \in JobIds : Wake(j)
  \/ \E j \in JobIds, result \in ImagegenOutcomes : ProviderSettles(j, result)
  \/ \E j \in JobIds, ok \in BOOLEAN : UpdateNegativeSettles(j, ok)
  \/ \E j \in JobIds, ok \in BOOLEAN : UpdateFinalSettles(j, ok)
  \/ \E j \in JobIds, ok \in BOOLEAN : UpdateDoneSettles(j, ok)
  \/ \E j \in JobIds, ok \in BOOLEAN : SelectRowSettles(j, ok)
  \/ \E j \in JobIds, ok \in BOOLEAN : InsertAssetSettles(j, ok)
  \/ \E j \in JobIds : Finally(j)
  \/ Tick

\* Every step is the continuation of an await that has settled or of a timer
\* that has fired, or the request arriving: the event loop runs it.
OneBatchFairSpec == Init /\ [][OneBatchNext]_vars /\ WF_vars(OneBatchNext)

\* The staging module with up to MaxQueued jobs, so that jobs wait in the
\* queue behind one another: two submissions of one and of two vibes, in
\* either order and interleaved; a process ends by a failing update, a
\* flag, a provider failure or a success.
QueueForms ==
  {f \in FormInputs : ValidRoomType(f.roomType) /\ SelectVibes(f.vibes).ok
                       /\ f.strictness = IF Len(f.vibes.items) = 1
                                         THEN "normal" ELSE "strict"}

QueueOutcomes == {o \in ImagegenOutcomes : o.kind = "throw" \/ o.success}

QueueInit ==
  /\ now = MIN_INTERVAL_MS
  /\ lastRequestAt = 0
  /\ concurrency \in 1..MaxConcurrency
  /\ running = 0
  /\ queue = << >>
  /\ jobState = EmptyMap
  /\ proc = EmptyMap
  /\ stagingJobs = EmptyMap
  /\ stagingAssets = {}
  /\ req = [r \in Requests |-> IdleRequest]
  /\ nextJobId = 1
  /\ providerCalls = [j \in 1..MaxQueued |-> << >>]
  /\ lastCallEnd = NoTime
  /\ delayMs = 500
  /\ ApiQueueIdle
  /\ retry = IdleRetry
  /\ CallsIdle
  /\ BuyersIdle

QueueNext ==
  \/ \E r \in Requests, fields \in QueueForms : PostStage(r, fields)
  \/ \E r \in Requests : InsertJob(r, TRUE)
  \/ \E j \in 1..MaxQueued, ok \in BOOLEAN : UpdateRunningSettles(j, ok)
  \/ \E j \in 1..MaxQueued : Wake(j)
  \/ \E j \in 1..MaxQueued, result \in QueueOutcomes : ProviderSettles(j, result)
  \/ \E j \in 1..MaxQueued : UpdateNegativeSettles(j, TRUE)
  \/ \E j \in 1..MaxQueued : UpdateFinalSettles(j, TRUE)
  \/ \E j \in 1..MaxQueued : UpdateDoneSettles(j, TRUE)
  \/ \E j \in 1..MaxQueued : SelectRowSettles(j, TRUE)
  \/ \E j \in 1..MaxQueued : InsertAssetSettles(j, TRUE)
  \/ \E j \in 1..MaxQueued : Finally(j)
  \/ Tick

QueueSpec == QueueInit /\ [][QueueNext]_vars

\* An ApiQueue on its own: the staging module is the exported stagingQueue,
\* with nothing submitted.
ApiQueueInit ==
  /\ StagingInit
  /\ concurrency = 1
  /\ delayMs \in DelayChoices
  /\ ApiQueueIdle
  /\ retry = IdleRetry
  /\ CallsIdle
  /\ BuyersIdle

ApiQueueNext ==
  \/ ApiEnqueue
  \/ AwaitTaskSettles
  \/ DelayOver
  \/ ApiTick

ApiQueueSpec == ApiQueueInit /\ [][ApiQueueNext]_vars

\* A call of withRetry on its own.
RetryInit ==
  /\ StagingInit
  /\ concurrency = 1
  /\ delayMs = 500
  /\ ApiQueueIdle
  /\ retry = IdleRetry
  /\ CallsIdle
  /\ BuyersIdle

RetryNext ==
  \/ \E maxRetries \in 0..MaxRetriesBound, baseDelay \in BaseDelayChoices :
       RetryInvoke(maxRetries, baseDelay)
  \/ \E outcome \in FnOutcomes : RetryFnSettles(outcome)
  \/ RetryTimerFires

RetrySpec == RetryInit /\ [][RetryNext]_vars

\* The timers fire and fn settles (the assumption of the termination claim).
RetryFairSpec == RetrySpec /\ WF_vars(RetryNext)

(***************************************************************************)
(* shared/tasteAlgorithm.ts: the scoring engine.  Numbers are integers;    *)
(* the counts of a taste profile are finite numbers.                       *)
(***************************************************************************)
Max(a, b) == IF a > b THEN a ELSE b

clamp_upperOnly(value, min, max) == Min(max, value)

clamp(value, min, max) == Min(max, Max(min, value))

isVibe(value) == value \in VibeSet

\* Math.round(n / d) for d > 0: the integer nearest to n / d, halves up.
MathRound_floor(n, d) == n \div d

MathRound(n, d) == (2 * n + d) \div (2 * d)

\* Math.round((count / total) * 100)
Percent_fraction(count, total) == MathRound(count, total)

Percent(count, total) == MathRound(count * 100, total)

\* Object.values(counts).reduce((sum, value) => sum + value, 0)
RECURSIVE SumValues(_)
SumValues(counts) ==
  IF DOMAIN counts = {} THEN 0
  ELSE LET key == CHOOSE k \in DOMAIN counts : TRUE
       IN counts[key] + SumValues([k \in DOMAIN counts \ {key} |-> counts[k]])

\* An object argument that may be absent (undefined or null): an object is
\* given by its entries, a function from its keys to their values.
Absent == [defined |-> FALSE, entries |-> EmptyMap]

Present(entries) == [defined |-> TRUE, entries |-> entries]

\* entries[key] || 0
ValueOrZero(entries, key) == IF key \in DOMAIN entries THEN entries[key] ELSE 0

\* !propertyVibe
Falsy(value) == value \in {Null, Undefined, ""}

computeTasteScore(tasteProfileCounts, propertyVibe) ==
  IF ~tasteProfileCounts.defined \/ Falsy(propertyVibe)
     \/ propertyVibe = "Unclassified"
  THEN 0
  ELSE IF ~isVibe(propertyVibe) THEN 0
  ELSE
    LET counts == tasteProfileCounts.entries
        total == SumValues(counts)
        count == ValueOrZero(counts, propertyVibe)
    IN IF total <= 0 THEN 0
       ELSE IF count <= 0 THEN 0
       ELSE clamp(Percent(count, total), 0, 100)

\* Profiles: absent, empty, counts up to MaxCount over a few keys of which
\* one is no vibe, and the single-vibe profile of the regression check.
ProfileKeys == {"Purist", "Nomad", "Cottage"}

ScoreInputs ==
  [ tasteProfileCounts :
      {Absent}
        \cup {Present(counts) :
                counts \in UNION {[keys -> 0..MaxCount] : keys \in SUBSET ProfileKeys}}
        \cup {Present([k \in {v} |-> 5]) : v \in VibeSet},
    propertyVibe : VibeSet \cup {Null, Undefined, "", "Unclassified", UnknownVibe} ]

CallComputeTasteScore ==
  /\ scoreCall.output = Pending
  /\ scoreCall' =
       [scoreCall EXCEPT !.output =
          Returns(computeTasteScore(scoreCall.input.tasteProfileCounts,
                                    scoreCall.input.propertyVibe))]
  /\ UNCHANGED << serverVars, buyerVars, promptCall, gateCall, buyerCall, matchCall,
                  listingCall, planCall >>

\* ACTION_WEIGHTS, in units of 0.5 (like 2, save 4, skip 0.5, nope -1).
ACTION_WEIGHTS ==
  ("like" :> 4) @@ ("save" :> 8) @@ ("skip" :> 1) @@ ("nope" :> 0 - 2)

\* The loop over the events: raw[v] is the sum of the weights of the events
\* whose vibe is v; an event with no vibe or an unknown one is skipped.
RECURSIVE RawWeights(_)
RawWeights(events) ==
  IF events = << >> THEN [v \in VibeSet |-> 0]
  ELSE LET event == events[Len(events)]
           raw == RawWeights(SubSeq(events, 1, Len(events) - 1))
       IN IF Falsy(event.vibe) \/ ~isVibe(event.vibe) THEN raw
          ELSE [raw EXCEPT ![event.vibe] = @ + ACTION_WEIGHTS[event.action]]

\* Math.max(raw[v], 0)
FloorAtZero_none(weight) == weight

FloorAtZero(weight) == Max(weight, 0)

\* Number((n / d).toFixed(4)), in units of 0.0001.
ToFixed4_twoDigits(n, d) == MathRound(n * 100, d) * 100

ToFixed4(n, d) == MathRound(n * 10000, d)

RECURSIVE SumOver(_, _)
SumOver(f, keys) ==
  IF keys = << >> THEN 0 ELSE f[Head(keys)] + SumOver(f, Tail(keys))

\* Array.prototype.sort((a, b) => b.score - a.score) on the vibes: a stable
\* sort, descending.
RECURSIVE SortDescending(_, _)
SortDescending(vibes, score) ==
  IF vibes = << >> THEN << >>
  ELSE LET sorted == SortDescending(SubSeq(vibes, 1, Len(vibes) - 1), score)
           last == vibes[Len(vibes)]
           before == {i \in 1..Len(sorted) : score[sorted[i]] >= score[last]}
       IN SubSeq(sorted, 1, Cardinality(before)) \o <<last>>
            \o SubSeq(sorted, Cardinality(before) + 1, Len(sorted))

\* The vector is in units of 0.0001, the weights of the rationale in units
\* of 0.5.
computeBuyerVibeVector(events) ==
  LET raw == RawWeights(events)
      normalizedBase == [v \in VibeSet |-> FloorAtZero(raw[v])]
      total == SumOver(normalizedBase, VIBES)
      vector ==
        [v \in VibeSet |-> IF total > 0 THEN ToFixed4(normalizedBase[v], total) ELSE 0]
      byScore == SubSeq(SortDescending(VIBES, vector), 1, 3)
      byWeight == SubSeq(SortDescending(VIBES, raw), 1, 3)
  IN [ vector |-> vector,
       topVibes |-> [i \in 1..3 |-> [vibe |-> byScore[i], score |-> vector[byScore[i]]]],
       rationale |-> [i \in 1..3 |-> [vibe |-> byWeight[i], weight |-> raw[byWeight[i]]]] ]

\* The swipe events of a buyer: the vibe is the top vibe of the listing
\* swiped (null for a listing without one), the action one of the four.
BuyerEvents ==
  [ vibe : {"Purist", "Curator", "Nomad", Null, UnknownVibe},
    action : DOMAIN ACTION_WEIGHTS ]

\* GET /api/buyer/profile: the vector of the events recorded so far.
CallComputeBuyerVibeVector ==
  /\ buyerCall.output = Pending
  /\ buyerCall' =
       [buyerCall EXCEPT !.output = Returns(computeBuyerVibeVector(buyerCall.input))]
  /\ UNCHANGED << serverVars, buyerVars, promptCall, gateCall, scoreCall, matchCall,
                  listingCall, planCall >>

\* POST /api/buyer/swipe: one more event is recorded and the vector is
\* computed again from all the events of the buyer.
BuyerSwipe(event) ==
  /\ buyerCall.output.kind = "returned"
  /\ Len(buyerCall.input) < MaxEvents
  /\ LET events == Append(buyerCall.input, event)
     IN buyerCall' =
          [input |-> events, output |-> Returns(computeBuyerVibeVector(events))]
  /\ UNCHANGED << serverVars, buyerVars, promptCall, gateCall, scoreCall, matchCall,
                  listingCall, planCall >>

\* m * sqrt(n) <= k, for integers m, k and n >= 0.
LeqSqrt(m, n, k) ==
  IF m <= 0
  THEN k >= 0 \/ m * m * n >= k * k
  ELSE k >= 0 /\ m * m * n <= k * k

\* Math.round(dot / (Math.sqrt(a) * Math.sqrt(b)) * 100) for a, b > 0: the
\* integer r with r - 1/2 <= 100 * dot / sqrt(a * b) < r + 1/2.
RoundedCosine(dot, a, b) ==
  CHOOSE r \in (0 - 100)..100 :
    /\ LeqSqrt(2 * r - 1, a * b, 200 * dot)
    /\ ~LeqSqrt(2 * r + 1, a * b, 200 * dot)

computeVectorMatchScore(buyerVector, listingVector) ==
  IF ~buyerVector.defined \/ ~listingVector.defined THEN 0
  ELSE
    LET b == [v \in VibeSet |-> ValueOrZero(buyerVector.entries, v)]
        l == [v \in VibeSet |-> ValueOrZero(listingVector.entries, v)]
        dot == SumOver([v \in VibeSet |-> b[v] * l[v]], VIBES)
        buyerMagSq == SumOver([v \in VibeSet |-> b[v] * b[v]], VIBES)
        listingMagSq == SumOver([v \in VibeSet |-> l[v] * l[v]], VIBES)
    IN IF buyerMagSq <= 0 \/ listingMagSq <= 0 THEN 0
       ELSE clamp(RoundedCosine(dot, buyerMagSq, listingMagSq), 0, 100)

\* Vectors: absent, or weights of -1..MaxWeight for some of two vibes (a
\* vibe left out counts 0).
VectorKeys == {"Purist", "Nomad"}

Vectors ==
  {Absent}
    \cup {Present(weights) :
            weights \in UNION {[keys -> (0 - 1)..MaxWeight] : keys \in SUBSET VectorKeys}}

MatchInputs == [buyerVector : Vectors, listingVector : Vectors]

CallComputeVectorMatchScore ==
  /\ matchCall.output = Pending
  /\ matchCall' =
       [matchCall EXCEPT !.output =
          Returns(computeVectorMatchScore(matchCall.input.buyerVector,
                                          matchCall.input.listingVector))]
  /\ UNCHANGED << serverVars, buyerVars, promptCall, gateCall, scoreCall, buyerCall,
                  listingCall, planCall >>

(***************************************************************************)
(* server/listingVibeAlgorithm.ts: the vibe vector of a listing.           *)
(***************************************************************************)
\* A text argument that is null or undefined.
NullText == <<Null>>

\* text || ""
OrEmpty(text) == IF text = NullText THEN << >> ELSE text

\* JSON.stringify of an object given as the sequence of its properties: the
\* braces, and each key followed by its value.
JSONStringify(properties) ==
  <<"{">>
    \o Flatten([i \in 1..Len(properties) |->
                  <<properties[i].key>> \o properties[i].value])
    \o <<"}">>

\* [...def.keywords, ...def.visualCues]
TermsOf(vibe) ==
  VIBE_DEFINITIONS[vibe].keywords \o VIBE_DEFINITIONS[vibe].visualCues

\* Math.round((n / d) * 1000) / 1000, in units of 0.001.
Round3_twoDecimals(n, d) == MathRound(n * 100, d) * 10

Round3(n, d) == MathRound(n * 1000, d)

\* Scores are in units of 0.01 (the floor of a score is 0.01), the weights of
\* the vector and the scores of topVibes in units of 0.001.
computeListingVibeVector(input) ==
  LET haystack ==
        ToLowerCase(OrEmpty(input.description) \o OrEmpty(input.photosText)
                      \o JSONStringify(input.structured))
      matched ==
        [v \in VibeSet |->
           SelectSeq(TermsOf(v), LAMBDA term : Includes(haystack, ToLowerCase(term)))]
      rawScores == [v \in VibeSet |-> Max(1, 100 * Len(matched[v]))]
      sum == SumOver(rawScores, VIBES)
      total == IF sum = 0 THEN 100 ELSE sum
      vibeVector == [v \in VibeSet |-> Round3(rawScores[v], total)]
      byWeight == SubSeq(SortDescending(VIBES, vibeVector), 1, 3)
      byScore == SubSeq(SortDescending(VIBES, rawScores), 1, 3)
  IN [ vibeVector |-> vibeVector,
       topVibes |->
         [i \in 1..3 |-> [vibe |-> byWeight[i], score |-> vibeVector[byWeight[i]]]],
       rationale |->
         [i \in 1..3 |->
            [ vibe |-> byScore[i],
              matched |-> SubSeq(matched[byScore[i]], 1, Min(8, Len(matched[byScore[i]]))),
              score |-> rawScores[byScore[i]] ]],
       algorithmVersion |-> "taste-portfolio-v1" ]

\* Listings: the description is absent, matches nothing, matches terms of
\* one vibe (also in upper case) or of two; the photo text and the
\* structured fields (absent: {}) may match further terms.
ListingInputs ==
  [ description :
      {NullText, <<"a", "quiet", "home">>, <<"Gallery", "Walls", "and", "a", "Mural">>,
       Join(TermsOf("Purist")) \o Join(TermsOf("Industrialist"))}
        \cup {Join(VIBE_DEFINITIONS[v].keywords) : v \in VibeSet},
    photosText :
      {NullText, << >>, Join(VIBE_DEFINITIONS["Monarch"].visualCues),
       Join(VIBE_DEFINITIONS["Nomad"].visualCues)},
    structured :
      {<< >>, <<[key |-> "beds", value |-> <<"3">>]>>,
       <<[key |-> "style", value |-> <<"loft">>]>>} ]

CallComputeListingVibeVector ==
  /\ listingCall.output = Pending
  /\ listingCall' =
       [listingCall EXCEPT !.output =
          Returns(computeListingVibeVector(listingCall.input))]
  /\ UNCHANGED << serverVars, buyerVars, promptCall, gateCall, scoreCall, buyerCall,
                  matchCall, planCall >>

\* Prompts with and without the hard-constraint sentence, each followed by
\* nothing or by a renovation term in lower or upper case; negative prompts
\* with and without the two phrases the gate looks for.
GateInputs ==
  LET built == buildStagingPrompt("Purist", "living", << >>, "strict")
      bases == {built.prompt, Tail(built.prompt)}
      extras == {<< >>, <<"KNOCK", "DOWN", "WALL">>, <<"Change", "Layout">>}
                  \cup {RENOVATION_TERMS[i] : i \in 1..Len(RENOVATION_TERMS)}
      negatives == {<< >>, <<"no", "renovation">>, BASE_NEGATIVE_PROMPT,
                    <<"NO", "ARCHITECTURAL", "CHANGES">>, <<"Change", "Layout">>,
                    built.negativePrompt}
  IN [ prompt : {b \o e : b \in bases, e \in extras},
       negativePrompt : negatives ]

CallAssessPromptForBannedTerms ==
  /\ gateCall.output = Pending
  /\ gateCall' =
       [gateCall EXCEPT !.output =
          Returns(assessPromptForBannedTerms(gateCall.input.prompt,
                                             gateCall.input.negativePrompt))]
  /\ UNCHANGED << serverVars, buyerVars, promptCall, scoreCall, buyerCall, matchCall,
                  listingCall, planCall >>

(***************************************************************************)
(* POST /api/buyer/swipe: the handler of the swipes of the buyers.  Each   *)
(* await of the handler is one step, so that the handlers of concurrent    *)
(* requests interleave at the awaits.                                      *)
(***************************************************************************)

\* The rows of table properties that the handler reads: the first listing
\* has a vibe tag only, the second one a stored vibe vector as well (in
\* units of 0.2).  The table does not change while the handlers run.
LISTINGS ==
  (1 :> [ vibeTop |-> << >>, vibeTag |-> "Purist", vibeVector |-> Absent ])
    @@ (2 :> [ vibeTop |-> << >>, vibeTag |-> "Purist",
               vibeVector |-> Present(("Purist" :> 4) @@ ("Nomad" :> 3)) ])

\* A listing id with no row.
MissingListing == 3

Buyers == {"b1", "b2"}

\* buyerSwipeSchema: the bodies that parse.
SwipeBodies ==
  [ buyerId : Buyers,
    listingId : DOMAIN LISTINGS \cup {MissingListing},
    action : {"like", "save", "nope"} ]

getTopVibeFromProperty(property) ==
  LET fromTop == IF property.vibeTop # << >> THEN property.vibeTop[1].vibe ELSE Null
  IN IF ~Falsy(fromTop) /\ isVibe(fromTop) THEN fromTop
     ELSE IF ~Falsy(property.vibeTag) /\ isVibe(property.vibeTag) THEN property.vibeTag
     ELSE Null

getListingVector(property) ==
  IF property.vibeVector.defined THEN property.vibeVector
  ELSE LET top == getTopVibeFromProperty(property)
       IN IF top = Null THEN Absent
          ELSE Present([v \in VibeSet |-> IF v = top THEN 1 ELSE 0])

\* storage.getSwipeEventsByBuyer: the rows of the buyer.
getSwipeEventsByBuyer(events, buyerId) ==
  SelectSeq(events, LAMBDA e : e.buyerId = buyerId)

\* storage.getLeadByBuyerAndProperty: is there a row of the pair?
getLeadByBuyerAndProperty(rows, buyerId, propertyId) ==
  \E i \in 1..Len(rows) : rows[i].buyerId = buyerId /\ rows[i].propertyId = propertyId

\* events.map(...) with the top vibe of the listing of each event.
RECURSIVE buyerVibeEvents(_)
buyerVibeEvents(events) ==
  IF events = << >> THEN << >>
  ELSE << [ action |-> Head(events).action,
            vibe |-> getTopVibeFromProperty(LISTINGS[Head(events).listingId]) ] >>
         \o buyerVibeEvents(Tail(events))

RECURSIVE GCD(_, _)
GCD(m, n) == IF n = 0 THEN m ELSE GCD(n, m % n)

RECURSIVE GcdOver(_, _)
GcdOver(f, keys) ==
  IF keys = << >> THEN 0 ELSE GCD(f[Head(keys)], GcdOver(f, Tail(keys)))

\* The vector in the largest unit that keeps its entries integers: the
\* cosine does not depend on the unit, and the squares stay small.
InLargestUnit(vector) ==
  LET d == GcdOver(vector, VIBES)
  IN IF d = 0 THEN vector ELSE [v \in VibeSet |-> vector[v] \div d]

\* The match score of the listing of a request for the events read.
SwipeMatchScore(events, listing) ==
  LET buyerProfile == computeBuyerVibeVector(buyerVibeEvents(events))
  IN computeVectorMatchScore(Present(InLargestUnit(buyerProfile.vector)),
                             getListingVector(listing))

\* parsed.action === "save" || matchScore >= 85
LeadIsDue(action, matchScore) == action = "save" \/ matchScore >= 85

SwipeAt(s, pc) == swipe[s].pc = pc

SwipeGoes(s, pc) == swipe' = [swipe EXCEPT ![s].pc = pc]

SwipeResponds(s, code) ==
  swipe' = [swipe EXCEPT ![s].pc = "responded", ![s].response = code]

\* l.501-503: the body parses and getProperty is called.
SwipePost(s, body) ==
  /\ SwipeAt(s, "idle")
  /\ swipe' = [swipe EXCEPT ![s] =
       [ IdleSwipe EXCEPT !.pc = "getProperty", !.buyerId = body.buyerId,
                          !.listingId = body.listingId, !.action = body.action ]]
  /\ UNCHANGED << serverVars, callVars, buyers, swipeEvents, leads, notifications >>

\* l.503-508: no listing, 404; otherwise getBuyer is called.
GetPropertySettles(s) ==
  /\ SwipeAt(s, "getProperty")
  /\ IF swipe[s].listingId \in DOMAIN LISTINGS
     THEN SwipeGoes(s, "getBuyer")
     ELSE SwipeResponds(s, 404)
  /\ UNCHANGED << serverVars, callVars, buyers, swipeEvents, leads, notifications >>

\* l.508-513: a buyer not seen yet is created first.
GetBuyerSettles(s) ==
  /\ SwipeAt(s, "getBuyer")
  /\ IF swipe[s].buyerId \in buyers
     THEN SwipeGoes(s, "createSwipeEvent")
     ELSE SwipeGoes(s, "createBuyer")
  /\ UNCHANGED << serverVars, callVars, buyers, swipeEvents, leads, notifications >>

\* l.510: the id is the primary key of buyers; an insert of an id that is
\* there by now throws, and the catch of l.598-600 answers 400.
CreateBuyerSettles(s) ==
  /\ SwipeAt(s, "createBuyer")
  /\ IF swipe[s].buyerId \in buyers
     THEN /\ SwipeResponds(s, 400)
          /\ UNCHANGED buyers
     ELSE /\ SwipeGoes(s, "createSwipeEvent")
          /\ buyers' = buyers \cup {swipe[s].buyerId}
  /\ UNCHANGED << serverVars, callVars, swipeEvents, leads, notifications >>

\* l.513-521: the event is inserted and the events of the buyer are asked for.
CreateSwipeEventSettles(s) ==
  /\ SwipeAt(s, "createSwipeEvent")
  /\ swipeEvents' = Append(swipeEvents,
       [ buyerId |-> swipe[s].buyerId, listingId |-> swipe[s].listingId,
         action |-> swipe[s].action ])
  /\ SwipeGoes(s, "getSwipeEvents")
  /\ UNCHANGED << serverVars, callVars, buyers, leads, notifications >>

\* l.521-523: the events are read and their listings are asked for.  The
\* score of l.526-532 depends on the events read here only, since the
\* listings do not change: it is kept from here on.
GetSwipeEventsSettles(s) ==
  /\ SwipeAt(s, "getSwipeEvents")
  /\ LET events == getSwipeEventsByBuyer(swipeEvents, swipe[s].buyerId)
     IN swipe' = [swipe EXCEPT ![s].pc = "getProperties",
                    ![s].matchScore = SwipeMatchScore(events, LISTINGS[swipe[s].listingId])]
  /\ UNCHANGED << serverVars, callVars, buyers, swipeEvents, leads, notifications >>

\* l.523-547: the listings are there; a lead is due or the answer is sent.
GetPropertiesSettles(s) ==
  /\ SwipeAt(s, "getProperties")
  /\ IF LeadIsDue(swipe[s].action, swipe[s].matchScore)
     THEN SwipeGoes(s, "getLead")
     ELSE SwipeResponds(s, 200)
  /\ UNCHANGED << serverVars, callVars, buyers, swipeEvents, leads, notifications >>

\* l.548-549: with a lead of the pair the answer is sent, without one
\* createLead is called.
GetLeadSettles(s) ==
  /\ SwipeAt(s, "getLead")
  /\ IF getLeadByBuyerAndProperty(leads, swipe[s].buyerId, swipe[s].listingId)
     THEN SwipeResponds(s, 200)
     ELSE SwipeGoes(s, "createLead")
  /\ UNCHANGED << serverVars, callVars, buyers, swipeEvents, leads, notifications >>

\* l.556-572: the lead is inserted (table leads has no unique key on the
\* pair) and the notification is sent next.
CreateLeadSettles(s) ==
  /\ SwipeAt(s, "createLead")
  /\ leads' = Append(leads,
       [ propertyId |-> swipe[s].listingId, buyerId |-> swipe[s].buyerId,
         matchScore |-> swipe[s].matchScore ])
  /\ swipe' = [swipe EXCEPT ![s].pc = "createNotification", ![s].leadCreated = TRUE]
  /\ UNCHANGED << serverVars, callVars, buyers, swipeEvents, notifications >>

\* l.574-596: the notification is inserted and the answer is sent.
CreateNotificationSettles(s) ==
  /\ SwipeAt(s, "createNotification")
  /\ notifications' = Append(notifications,
       [ propertyId |-> swipe[s].listingId, buyerId |-> swipe[s].buyerId,
         priority |-> IF swipe[s].matchScore >= 95 THEN "critical" ELSE "high" ])
  /\ SwipeResponds(s, 200)
  /\ UNCHANGED << serverVars, callVars, buyers, swipeEvents, leads >>

\* The swipe handlers on their own: up to MaxSwipes requests, which may
\* overlap.
SwipeInit ==
  /\ StagingInit
  /\ concurrency = 1
  /\ delayMs = 500
  /\ ApiQueueIdle
  /\ retry = IdleRetry
  /\ CallsIdle
  /\ BuyersIdle

SwipeNext ==
  \/ \E s \in SwipeRequests, body \in SwipeBodies : SwipePost(s, body)
  \/ \E s \in SwipeRequests : GetPropertySettles(s)
  \/ \E s \in SwipeRequests : GetBuyerSettles(s)
  \/ \E s \in SwipeRequests : CreateBuyerSettles(s)
  \/ \E s \in SwipeRequests : CreateSwipeEventSettles(s)
  \/ \E s \in SwipeRequests : GetSwipeEventsSettles(s)
  \/ \E s \in SwipeRequests : GetPropertiesSettles(s)
  \/ \E s \in SwipeRequests : GetLeadSettles(s)
  \/ \E s \in SwipeRequests : CreateLeadSettles(s)
  \/ \E s \in SwipeRequests : CreateNotificationSettles(s)

SwipeSpec == SwipeInit /\ [][SwipeNext]_vars

(***************************************************************************)
(* The staging planner: generateHeuristicPlan picks items of a catalog     *)
(* for a room and places them in zones.                                    *)
(***************************************************************************)

\* The ids of the items, in the order of String.prototype.localeCompare.
ItemIds == << "a", "b", "c", "d", "e", "f", "g", "h", "i", "j", "k" >>

\* a.localeCompare(b): negative, zero or positive.
localeCompare(a, b) ==
  (CHOOSE i \in 1..Len(ItemIds) : ItemIds[i] = a)
    - (CHOOSE i \in 1..Len(ItemIds) : ItemIds[i] = b)

CatalogItem(id, category, vibe_tags, style_tags, palette, sizes_in) ==
  [ id |-> id, category |-> category, vibe_tags |-> vibe_tags,
    style_tags |-> style_tags, palette |-> palette, sizes_in |-> sizes_in,
    notes |-> <<"notes", "of", id>> ]

\* The items a catalog is made of: one or two of each category the planner
\* knows, one of a category it does not know, and a second rug that bears
\* the id of the plant (nothing keeps the ids of a catalog file distinct).
CatalogItems ==
  << CatalogItem("a", "rug", <<"Purist">>, <<"minimal">>, <<"white">>,
                 << <<60, 96>>, <<96, 120>>, <<108, 144>> >>),
     CatalogItem("b", "lighting_floor", << >>, <<"minimal">>, << >>, << >>),
     CatalogItem("c", "lighting_table", <<"Nomad">>, <<"woven">>, <<"sand">>, << >>),
     CatalogItem("d", "wall_art", <<"Purist">>, <<"minimal">>, <<"white">>, << >>),
     CatalogItem("e", "mirror", <<"Nomad">>, <<"woven">>, << >>, << >>),
     CatalogItem("f", "drapes", << >>, << >>, <<"white", "sand">>, << >>),
     CatalogItem("g", "plant", << >>, << >>, << >>, << >>),
     CatalogItem("h", "accent_chair", <<"Nomad">>, <<"woven">>, <<"sand">>, << >>),
     CatalogItem("i", "coffee_table", <<"Purist">>, << >>, <<"white">>, << >>),
     CatalogItem("j", "decor_objects", << >>, <<"minimal", "woven">>, << >>, << >>),
     CatalogItem("g", "rug", << >>, <<"woven">>, << >>, << <<48, 72>> >>),
     CatalogItem("k", "sofa", <<"Purist">>, <<"minimal">>, <<"white">>, << >>) >>

\* The items of CatalogItems at the positions kept, in their order.
RECURSIVE ItemsAt(_, _)
ItemsAt(kept, from) ==
  IF from > Len(CatalogItems) THEN << >>
  ELSE (IF from \in kept THEN << CatalogItems[from] >> ELSE << >>)
         \o ItemsAt(kept, from + 1)

\* Catalog: the planner reads the items only.
Catalogs == { [items |-> ItemsAt(kept, 1)] : kept \in SUBSET (1..Len(CatalogItems)) }

\* RoomInput: a small, a medium and a large room, in feet.
RoomInputs ==
  [ room_type : {"living_room"},
    vibe : {"Purist", "Nomad"},
    dimensions_ft : { [length |-> 9, width |-> 9, ceiling_height |-> 8],
                      [length |-> 12, width |-> 11, ceiling_height |-> 8],
                      [length |-> 14, width |-> 12, ceiling_height |-> 9] } ]

PlanInputs == [room : RoomInputs, catalog : Catalogs]

\* array.includes(value)
ArrayIncludes(array, value) == \E i \in 1..Len(array) : array[i] = value

\* new Set(array)
SetOf(array) == {array[i] : i \in 1..Len(array)}

\* items.flatMap(field): the members of the arrays, as a set.
FlatSetOf(arrays) == UNION {SetOf(arrays[i]) : i \in 1..Len(arrays)}

\* A value that may be undefined is a sequence of no or one member.
chooseRugSizeByRoom(item, length, width) ==
  IF Len(item.sizes_in) = 0
  THEN [size |-> << >>, index |-> 0, tier |-> "small"]
  ELSE
    LET minSide == Min(length, width)
        upscale == length >= 14 /\ width >= 12 /\ Len(item.sizes_in) >= 3
        wantedIndex == IF upscale THEN 2
                       ELSE IF minSide < 10 THEN 0
                       ELSE IF minSide <= 13 THEN 1 ELSE 2
        tier == IF upscale THEN "large"
                ELSE IF minSide < 10 THEN "small"
                ELSE IF minSide <= 13 THEN "medium" ELSE "large"
        index == Min(wantedIndex, Len(item.sizes_in) - 1)
    IN [size |-> << item.sizes_in[index + 1] >>, index |-> index, tier |-> tier]

zoneForCategory(category) ==
  IF category \in {"rug", "coffee_table"} THEN "Center"
  ELSE IF category = "drapes" THEN "Window Wall"
  ELSE IF category = "wall_art" THEN "Wall A"
  ELSE IF category = "mirror" THEN "Wall B"
  ELSE IF category \in {"lighting_floor", "lighting_table", "plant", "accent_chair"}
       THEN "Corner 1"
  ELSE "Wall C"

isLargeCategory(category) ==
  category \in {"rug", "coffee_table", "accent_chair", "lighting_floor", "mirror"}

zoneCandidates_oneCorner(category, preferred) ==
  IF category = "accent_chair" THEN <<"Corner 1">>
  ELSE IF category = "lighting_floor" THEN <<"Corner 1">>
  ELSE <<preferred>>

zoneCandidates(category, preferred) ==
  IF category = "accent_chair" THEN <<"Corner 2", "Sofa Zone", "Corner 1">>
  ELSE IF category = "lighting_floor" THEN <<"Corner 1", "Corner 2">>
  ELSE IF category = "plant" THEN <<"Corner 2", "Corner 1">>
  ELSE IF category = "coffee_table" THEN <<"Sofa Zone", "Center">>
  ELSE IF category = "mirror" THEN <<"Wall B", "Wall C", "Wall D">>
  ELSE <<preferred>>

uniquePush(target, candidate) ==
  IF candidate = << >> THEN target
  ELSE IF \E i \in 1..Len(target) : target[i].id = candidate[1].id THEN target
  ELSE target \o candidate

scoreItem(item, vibe, desiredStyle, desiredPalette) ==
  (IF ArrayIncludes(item.vibe_tags, vibe) THEN 100 ELSE 0)
    + 3 * Cardinality({i \in 1..Len(item.style_tags) : item.style_tags[i] \in desiredStyle})
    + 2 * Cardinality({i \in 1..Len(item.palette) : item.palette[i] \in desiredPalette})

\* ranked[0] of the stable sort by falling score, then by rising id: the
\* first of the items that no item comes before.
pickBest(items, vibe, desiredStyle, desiredPalette, excludeIds) ==
  LET pool == SelectSeq(items, LAMBDA item : item.id \notin excludeIds)
      score(item) == scoreItem(item, vibe, desiredStyle, desiredPalette)
      Before(a, b) ==
        \/ score(a) > score(b)
        \/ score(a) = score(b) /\ localeCompare(a.id, b.id) < 0
      best == {i \in 1..Len(pool) : \A k \in 1..Len(pool) : ~Before(pool[k], pool[i])}
  IN IF pool = << >> THEN << >>
     ELSE << pool[CHOOSE i \in best : \A k \in best : i <= k] >>

\* catalog.items.filter((item) => item.category === category)
byCategory(catalog, category) ==
  SelectSeq(catalog.items, LAMBDA item : item.category = category)

\* What the picks are made with: the catalog, the vibe and the style tags
\* and colours of the items that bear the vibe.
PickContext(room, catalog) ==
  LET vibeMatched ==
        SelectSeq(catalog.items, LAMBDA item : ArrayIncludes(item.vibe_tags, room.vibe))
  IN [ catalog |-> catalog, vibe |-> room.vibe,
       desiredStyle |-> FlatSetOf([i \in 1..Len(vibeMatched) |-> vibeMatched[i].style_tags]),
       desiredPalette |-> FlatSetOf([i \in 1..Len(vibeMatched) |-> vibeMatched[i].palette]) ]

PickFrom(c, pool, selectedIds) ==
  pickBest(pool, c.vibe, c.desiredStyle, c.desiredPalette, selectedIds)

\* l.240-252: the rug, the lighting and the wall piece, each pushed when
\* there is one.
RequiredPick(c, picked, pool) ==
  LET candidate == PickFrom(c, pool, picked.selectedIds)
  IN [ selected |-> uniquePush(picked.selected, candidate),
       selectedIds |-> picked.selectedIds \cup {candidate[i].id : i \in 1..Len(candidate)} ]

optionalCategories == << "drapes", "plant", "accent_chair", "coffee_table", "decor_objects" >>

\* l.255-262: the loop over the optional categories, left once six items
\* are selected.
RECURSIVE OptionalPicks(_, _, _)
OptionalPicks(c, picked, categories) ==
  IF categories = << >> THEN picked
  ELSE
    LET candidate == PickFrom(c, byCategory(c.catalog, Head(categories)), picked.selectedIds)
        next == [ selected |-> picked.selected \o candidate,
                  selectedIds |-> picked.selectedIds
                                    \cup {candidate[i].id : i \in 1..Len(candidate)} ]
    IN IF Len(next.selected) >= 6 THEN next
       ELSE OptionalPicks(c, next, Tail(categories))

\* l.289-308: the zone of an item, given the zones the large items before
\* it have taken.
ZoneOf(item, usedLargeZones) ==
  LET preferred == zoneForCategory(item.category)
      candidates == zoneCandidates(item.category, preferred)
      free == {i \in 1..Len(candidates) : candidates[i] \notin usedLargeZones}
  IN IF item.category = "rug" THEN "Center"
     ELSE IF item.category = "drapes" THEN "Window Wall"
     ELSE IF item.category = "wall_art" THEN "Wall A"
     ELSE IF isLargeCategory(item.category) \/ item.category = "plant"
          THEN IF free # {} THEN candidates[CHOOSE i \in free : \A k \in free : i <= k]
               ELSE candidates[1]
     ELSE preferred

\* l.310-320: the notes of a placement; the text on the rug is given by the
\* size chosen.
PositionNotes(item, rugSelection) ==
  IF item.category = "rug" THEN << "Center", "anchor", "rug", rugSelection >>
  ELSE IF item.category = "wall_art" THEN << "Primary", "art", "focal", "point" >>
  ELSE IF item.category = "drapes" THEN << "Mount", "high", "and", "wide" >>
  ELSE item.notes

\* l.288-327: selected.map(...) with the set usedLargeZones carried along.
RECURSIVE PlacementPlan(_, _, _)
PlacementPlan(selected, usedLargeZones, rugSelection) ==
  IF selected = << >> THEN << >>
  ELSE
    LET item == Head(selected)
        zone == ZoneOf(item, usedLargeZones)
        used == IF isLargeCategory(item.category) THEN usedLargeZones \cup {zone}
                ELSE usedLargeZones
    IN << [ item_id |-> item.id, zone |-> zone,
            position_notes |-> PositionNotes(item, rugSelection) ] >>
         \o PlacementPlan(Tail(selected), used, rugSelection)

\* l.268-285: the reason given for an item.
SelectedItem(item, vibe, rugSelection) ==
  [ item_id |-> item.id,
    reason |-> IF item.category = "rug" THEN << "Selected", "for", vibe, rugSelection >>
               ELSE IF ArrayIncludes(item.vibe_tags, vibe)
                    THEN << "direct", "vibe", "match", "for", vibe >>
               ELSE << "best", "fallback" >> ]

generateHeuristicPlan(room, catalog) ==
  LET c == PickContext(room, catalog)
      none == [selected |-> << >>, selectedIds |-> {}]
      withRug == RequiredPick(c, none, byCategory(catalog, "rug"))
      withLighting ==
        RequiredPick(c, withRug,
          byCategory(catalog, "lighting_floor") \o byCategory(catalog, "lighting_table"))
      withWall ==
        RequiredPick(c, withLighting,
          byCategory(catalog, "wall_art") \o byCategory(catalog, "mirror"))
      selected == OptionalPicks(c, withWall, optionalCategories).selected
      rug == withRug.selected
      rugSelection ==
        IF rug = << >> THEN << >>
        ELSE << chooseRugSizeByRoom(rug[1], room.dimensions_ft.length,
                                    room.dimensions_ft.width) >>
  IN [ room |-> [room_type |-> room.room_type, dimensions_ft |-> room.dimensions_ft],
       vibe |-> room.vibe,
       selected_items |->
         [i \in 1..Len(selected) |-> SelectedItem(selected[i], room.vibe, rugSelection)],
       placement_plan |-> PlacementPlan(selected, {}, rugSelection),
       constraints |-> [allowed_item_ids_only |-> TRUE, no_new_items |-> TRUE] ]

\* The plan is an object of two arrays whose entries bear string ids, so
\* the errors left are the ids that the catalog does not have.
validatePlanAgainstCatalog(plan, catalog) ==
  LET idSet == {catalog.items[i].id : i \in 1..Len(catalog.items)}
      invalid ==
        {plan.selected_items[i].item_id : i \in 1..Len(plan.selected_items)}
          \cup {plan.placement_plan[i].item_id : i \in 1..Len(plan.placement_plan)}
  IN [ ok |-> invalid \subseteq idSet, invalid_item_ids |-> invalid \ idSet ]

\* example.run.ts: the plan is made and validated against the catalog.
CallGenerateHeuristicPlan ==
  /\ planCall.output = Pending
  /\ LET plan == generateHeuristicPlan(planCall.input.room, planCall.input.catalog)
     IN planCall' = [planCall EXCEPT !.output =
          Returns([ plan |-> plan,
                    validation |-> validatePlanAgainstCatalog(plan, planCall.input.catalog) ])]
  /\ UNCHANGED << serverVars, buyerVars, promptCall, gateCall, scoreCall, buyerCall,
                  matchCall, listingCall >>

\* One call of one of the pure functions, on arguments drawn from the
\* inputs of that function; nothing else runs.
PureFunctions ==
  {"buildStagingPrompt", "assessPromptForBannedTerms", "computeTasteScore",
   "computeBuyerVibeVector", "computeVectorMatchScore",
   "computeListingVibeVector", "generateHeuristicPlan"}

CallsOf(fn, name, inputs) ==
  IF fn = name THEN [input : inputs, output : {Pending}] ELSE {NoCall}

CallInit ==
  /\ StagingInit
  /\ concurrency = 1
  /\ delayMs = 500
  /\ ApiQueueIdle
  /\ retry = IdleRetry
  /\ \E fn \in PureFunctions :
       /\ promptCall \in CallsOf(fn, "buildStagingPrompt", PromptInputs)
       /\ gateCall \in CallsOf(fn, "assessPromptForBannedTerms", GateInputs)
       /\ scoreCall \in CallsOf(fn, "computeTasteScore", ScoreInputs)
       /\ buyerCall \in CallsOf(fn, "computeBuyerVibeVector", {<< >>})
       /\ matchCall \in CallsOf(fn, "computeVectorMatchScore", MatchInputs)
       /\ listingCall \in CallsOf(fn, "computeListingVibeVector", ListingInputs)
       /\ planCall \in CallsOf(fn, "generateHeuristicPlan", PlanInputs)
  /\ BuyersIdle

CallNext ==
  \/ CallBuildStagingPrompt
  \/ GateBuiltPrompt
  \/ CallAssessPromptForBannedTerms
  \/ CallComputeTasteScore
  \/ CallComputeBuyerVibeVector
  \/ \E event \in BuyerEvents : BuyerSwipe(event)
  \/ CallComputeVectorMatchScore
  \/ CallComputeListingVibeVector
  \/ CallGenerateHeuristicPlan

CallSpec == CallInit /\ [][CallNext]_vars

(***************************************************************************)
(* Properties of the Staging Job Queue.                                    *)
(***************************************************************************)
Finished == {"finishedResolved", "finishedRejected"}

\* process(job) has returned without throwing.
Returned(j) == proc[j].pc \in {"resolved", "finishedResolved"}

\* The prompt pairs the forms of FormInputs lead to, and the flags of the
\* prompt gate for each (computed once).
BuiltPairs ==
  UNION { { buildStagingPrompt(f.vibes.items[i], f.roomType, f.roomNotes,
                               IF f.strictness = "strict" THEN "strict" ELSE "normal") :
              i \in 1..Len(f.vibes.items) } :
          f \in {g \in FormInputs :
                   /\ g.roomType \in ROOM_TYPES
                   /\ g.vibes.kind = "array"
                   /\ \A n \in 1..Len(g.vibes.items) : g.vibes.items[n] \in VibeSet} }

PromptFlagsTable ==
  [b \in BuiltPairs |-> assessPromptForBannedTerms(b.prompt, b.negativePrompt)]

PromptFlagsOf(j) ==
  PromptFlagsTable[[ prompt |-> proc[j].job.prompt,
                     negativePrompt |-> proc[j].job.negativePrompt ]]

\* The processes dequeued and not yet finished.
Active == {j \in DOMAIN proc : proc[j].pc \notin Finished}

\* C1: a dequeued job whose prompt fails the gate gets no provider call, is
\* never done or failed, is flagged with the error "Prompt failed staging
\* quality gate." and the prompt flags (in the state map and in the row),
\* and is flagged once process has returned.
C1_PromptGateFailsFast ==
  \A j \in DOMAIN proc :
    LET promptFlags == PromptFlagsOf(j)
        state == jobState[j]
        row == stagingJobs[j]
    IN Len(promptFlags) > 0 =>
         /\ providerCalls[j] = << >>
         /\ state.status \in {"running", "flagged"}
         /\ row.status \in {"queued", "running", "flagged"}
         /\ state.status = "flagged" =>
              /\ state.error = "Prompt failed staging quality gate."
              /\ "qualityFlags" \in DOMAIN state
              /\ state.qualityFlags = promptFlags
         /\ row.status = "flagged" =>
              /\ row.error = "Prompt failed staging quality gate."
              /\ row.qualityFlags = promptFlags
              /\ row.outputImageUrl = NoUrl
         /\ Returned(j) => state.status = "flagged" /\ row.status = "flagged"

C1_Witness ==
  \E j \in DOMAIN proc :
    /\ Len(PromptFlagsOf(j)) > 0
    /\ proc[j].pc = "finishedResolved"
    /\ stagingJobs[j].status = "flagged"
    /\ jobState[j].status = "flagged"

FailedThenSucceeded(j) ==
  /\ Len(providerCalls[j]) = 2
  /\ providerCalls[j][1].settled = "rejected"
  /\ providerCalls[j][2].settled = "resolved"
  /\ assessOutputMetadataIfAvailable(providerCalls[j][2].providerMeta) = << >>

\* C2: when the first provider call of a job fails and the second succeeds
\* with no output flag, the first call carried the job's negative prompt, the
\* second carried it with "ABSOLUTELY NO ARCHITECTURAL CHANGES" appended, and
\* the job is done: in the state map at once, in the row once the update has
\* returned.
C2_RetryEscalates ==
  \A j \in DOMAIN proc :
    FailedThenSucceeded(j) =>
      /\ providerCalls[j][1].negativePrompt = proc[j].job.negativePrompt
      /\ providerCalls[j][2].negativePrompt =
           proc[j].job.negativePrompt
           \o <<"ABSOLUTELY", "NO", "ARCHITECTURAL", "CHANGES">>
      /\ jobState[j].status = "done"
      /\ stagingJobs[j].status \in {"running", "done"}
      /\ (Returned(j) \/ proc[j].pc \in {"selectRow", "insertAsset"})
           => stagingJobs[j].status = "done"

C2_Witness ==
  \E j \in DOMAIN proc :
    /\ FailedThenSucceeded(j)
    /\ proc[j].pc = "finishedResolved"
    /\ stagingJobs[j].status = "done"

BothFailed(j) ==
  /\ Len(providerCalls[j]) = 2
  /\ providerCalls[j][1].settled = "rejected"
  /\ providerCalls[j][2].settled = "rejected"

\* C3: no job gets more than two provider calls; when both fail the job is
\* failed with the message of the second failure as its error and no output
\* image.
C3_AtMostOneRetry ==
  \A j \in JobIds :
    /\ Len(providerCalls[j]) <= 2
    /\ BothFailed(j) =>
         /\ jobState[j].status = "failed"
         /\ jobState[j].error = providerCalls[j][2].message
         /\ stagingJobs[j].status \in {"running", "failed"}
         /\ stagingJobs[j].outputImageUrl = NoUrl
         /\ stagingJobs[j].status = "failed" =>
              stagingJobs[j].error = providerCalls[j][2].message
         /\ Returned(j) => stagingJobs[j].status = "failed"

C3_Witness ==
  \E j \in DOMAIN proc :
    /\ BothFailed(j)
    /\ providerCalls[j][1].message # providerCalls[j][2].message
    /\ proc[j].pc = "finishedResolved"
    /\ stagingJobs[j].status = "failed"

\* C4: a status that is done, failed or flagged, in the state map or in the
\* row, is never followed by another status.
C4_TerminalIsFinal ==
  [][\A j \in JobIds :
       /\ (j \in DOMAIN jobState /\ jobState[j].status \in TerminalStatuses)
            => jobState'[j].status = jobState[j].status
       /\ (j \in DOMAIN stagingJobs /\ stagingJobs[j].status \in TerminalStatuses)
            => stagingJobs'[j].status = stagingJobs[j].status]_vars

C4_Witness ==
  \E j, k \in DOMAIN proc :
    /\ j < k
    /\ proc[j].pc \in Finished
    /\ stagingJobs[j].status = "failed" /\ jobState[j].status = "failed"
    /\ stagingJobs[k].status = "done" /\ jobState[k].status = "done"
    /\ proc[k].pc \in Finished

CallInFlight ==
  \E k \in JobIds :
    providerCalls[k] # << >>
    /\ providerCalls[k][Len(providerCalls[k])].settled = "pending"

C6_ConcurrencyBound ==
  /\ Cardinality(Active) <= concurrency
  /\ running <= concurrency

C6_Witness ==
  /\ queue # << >>
  /\ Cardinality(Active) = concurrency
  /\ \E j \in Active : proc[j].pc = "calling"

Succeeded(j) ==
  /\ providerCalls[j] # << >>
  /\ providerCalls[j][Len(providerCalls[j])].settled = "resolved"

\* C7: after a provider call of a job has succeeded: with output flags the
\* job is flagged, and a flagged row holds the output image and the flags;
\* with none the job is done, and a done row holds a non-null output image
\* and an empty flag list.  The row holds the status once the update has
\* returned.
C7_SuccessOutcome ==
  \A j \in DOMAIN proc :
    Succeeded(j) =>
      LET call == providerCalls[j][Len(providerCalls[j])]
          outputFlags == assessOutputMetadataIfAvailable(call.providerMeta)
          state == jobState[j]
          row == stagingJobs[j]
          final == IF Len(outputFlags) > 0 THEN "flagged" ELSE "done"
      IN /\ state.status = final
         /\ "qualityFlags" \in DOMAIN state /\ state.qualityFlags = outputFlags
         /\ row.status \in {"running", final}
         /\ row.status = final =>
              /\ row.outputImageUrl = call.outputImageUrl
              /\ row.outputImageUrl # NoUrl
              /\ row.qualityFlags = outputFlags
         /\ (Returned(j) \/ proc[j].pc \in {"selectRow", "insertAsset"})
              => row.status = final

C7_Witness ==
  \E j \in DOMAIN proc :
    /\ Succeeded(j)
    /\ proc[j].pc = "finishedResolved"
    /\ stagingJobs[j].status = "done"
    /\ stagingJobs[j].outputImageUrl # NoUrl

\* C8: every asset belongs to a job whose row is done, and no job has two
\* assets.
C8_AssetOnlyWhenDone ==
  /\ \A a \in stagingAssets :
       /\ a.stagingJobId \in DOMAIN stagingJobs
       /\ stagingJobs[a.stagingJobId].status = "done"
  /\ \A a, b \in stagingAssets : a.stagingJobId = b.stagingJobId => a = b

C8_Witness ==
  \E a \in stagingAssets :
    \E k \in DOMAIN stagingJobs :
      k # a.stagingJobId /\ stagingJobs[k].status \in {"failed", "flagged"}

\* C9: once process has settled for a job, nothing updates the job any more:
\* every job reaches a terminal status only if, when its process has
\* settled, its status is done, failed or flagged in the state map and in
\* the row.
C9_SettledJobsAreTerminal ==
  \A j \in DOMAIN proc :
    proc[j].pc \in {"resolved", "rejected"} \cup Finished =>
      /\ jobState[j].status \in TerminalStatuses
      /\ stagingJobs[j].status \in TerminalStatuses

\* The step ends job j badly: its status becomes failed or flagged, or its
\* process throws.
EndsBadly(j) ==
  /\ j \in DOMAIN proc
  /\ proc'[j] # proc[j]
  /\ \/ jobState'[j].status \in {"failed", "flagged"}
     \/ stagingJobs'[j].status \in {"failed", "flagged"}
     \/ proc'[j].pc \in {"rejected", "finishedRejected"}

\* The step dequeues job k.
Dequeued(k) == k \notin DOMAIN proc /\ k \in DOMAIN proc'

\* C10: a step that ends a job badly leaves the state and the row of every
\* other job as they are, but for the next jobs it dequeues (which become
\* running); and while a job waits in the queue, as many processes as the
\* concurrency limit allows are under way.
C10_FailureIsLocal ==
  [][/\ \A j, k \in DOMAIN jobState :
          (j # k /\ EndsBadly(j)) =>
             /\ stagingJobs'[k] = stagingJobs[k]
             /\ IF Dequeued(k)
                THEN jobState[k].status = "queued" /\ jobState'[k].status = "running"
                ELSE jobState'[k] = jobState[k]
     /\ queue' # << >> => Cardinality(Active') >= concurrency']_vars

C10_Witness ==
  \E j, k \in DOMAIN proc :
    /\ j < k
    /\ concurrency = 1
    /\ proc[j].pc = "finishedRejected"
    /\ stagingJobs[k].status = "done"
    /\ proc[k].pc = "finishedResolved"

\* The messages generateStagedImageWithProvider throws with when
\* generateStagedImage reports a safety block, and when it returns any
\* failure (the quota / rate limit errors are the ones it rethrows).
SafetyBlockMessages ==
  { generateStagedImageWithProvider(r).message :
      r \in {x \in ImagegenOutcomes : x.safetyBlocked} }

NonQuotaMessages ==
  { generateStagedImageWithProvider(r).message :
      r \in {x \in ImagegenOutcomes : x.kind = "return" /\ ~x.success} }

SafetyBlockReported(j) ==
  \E i \in 1..Len(providerCalls[j]) :
    /\ providerCalls[j][i].settled = "rejected"
    /\ providerCalls[j][i].message \in SafetyBlockMessages

\* C11: a job for which the provider reported a safety block is, once
\* process has returned, flagged with the flag provider_safety_blocked.
C11_SafetyBlockFlagsJob ==
  \A j \in DOMAIN proc :
    (SafetyBlockReported(j) /\ Returned(j)) =>
      /\ jobState[j].status = "flagged"
      /\ stagingJobs[j].status = "flagged"
      /\ \E i \in 1..Len(stagingJobs[j].qualityFlags) :
           stagingJobs[j].qualityFlags[i] = <<"provider_safety_blocked">>

\* C12: a provider call that failed with a failure that is not of the quota
\* class is the last provider call of its job.
C12_NonQuotaFailsAtOnce ==
  \A j \in JobIds :
    \A i \in 1..Len(providerCalls[j]) :
      (/\ providerCalls[j][i].settled = "rejected"
       /\ providerCalls[j][i].message \in NonQuotaMessages)
        => i = Len(providerCalls[j])

(***************************************************************************)
(* Properties of ApiQueue and withRetry.                                   *)
(***************************************************************************)
\* processNext has taken task t from the queue and its `await task` is over.
Awaited(t) ==
  /\ \A i \in 1..Len(apiQueue) : apiQueue[i] # t
  /\ ~(processNext.pc = "awaitTask" /\ processNext.task = t)

\* C14: every task passed to enqueue is invoked exactly once and its promise
\* settles: a task processNext has taken from the queue and awaited has been
\* invoked once and the promise enqueue returned for it is settled.
C14_AwaitedTasksHaveRun ==
  \A t \in DOMAIN tasks :
    Awaited(t) =>
      /\ tasks[t].invoked = 1
      /\ tasks[t].promise \in {"resolved", "rejected"}

\* A failure of the quota / 429 class: its message contains "429", "quota"
\* or "Resource exhausted".
QuotaClass(o) ==
  /\ ~o.ok
  /\ o.message # NoMessage
  /\ \E token \in {<<"429">>, <<"quota">>, <<"Resource", "exhausted">>} :
       Includes(o.message, token)

\* C15: withRetry calls fn again only after a failure of the quota class;
\* after any other failure it makes no further call and throws that error;
\* after a success it makes no further call and returns that result.
C15_RetryOnlyOnQuota ==
  \A i \in 1..Len(retry.outcomes) :
    LET o == retry.outcomes[i]
    IN /\ i < retry.invocations => QuotaClass(o)
       /\ (~o.ok /\ ~QuotaClass(o)) =>
            /\ retry.invocations = i
            /\ retry.pc = "thrown"
            /\ retry.result = [kind |-> "error", message |-> o.message, call |-> i]
       /\ o.ok =>
            /\ retry.invocations = i
            /\ retry.pc = "returned"
            /\ retry.result = [kind |-> "value", message |-> NoMessage, call |-> i]

C15_Witness ==
  /\ retry.pc = "thrown"
  /\ Len(retry.outcomes) = 3
  /\ QuotaClass(retry.outcomes[1]) /\ QuotaClass(retry.outcomes[2])
  /\ retry.outcomes[3].message = <<"403", "permission", "denied">>
  /\ retry.maxRetries = 3

RetryEnded == retry.pc \in {"returned", "thrown"}

AllAttemptsFailedOnQuota ==
  /\ Len(retry.outcomes) = retry.maxRetries + 1
  /\ \A i \in 1..Len(retry.outcomes) : QuotaClass(retry.outcomes[i])

RetryIsBounded ==
  /\ retry.invocations <= retry.maxRetries + 1
  /\ Len(retry.waits) <= retry.maxRetries
  /\ \A k \in 0..(Len(retry.waits) - 1) :
       retry.waits[k + 1] = retry.baseDelay * (2 ^ k)
  /\ (retry.pc # "idle" /\ AllAttemptsFailedOnQuota) =>
       /\ retry.pc = "thrown"
       /\ retry.result =
            [ kind |-> "error",
              message |-> retry.outcomes[retry.maxRetries + 1].message,
              call |-> retry.maxRetries + 1 ]

\* C16: withRetry calls fn at most maxRetries + 1 times, waits
\* baseDelay * 2^k before the k-th retry, throws the error of the last
\* attempt when every attempt failed on quota, and ends.
C16_RetryTerminates == []RetryIsBounded /\ <>RetryEnded

C16_Witness ==
  /\ retry.pc = "thrown"
  /\ retry.maxRetries = 3 /\ retry.baseDelay = 5000
  /\ retry.invocations = 4
  /\ retry.waits = <<5000, 10000, 20000>>
  /\ AllAttemptsFailedOnQuota

(***************************************************************************)
(* Properties of the batch submission and the batch status query.          *)
(***************************************************************************)
\* GET /api/staging/batch/:batchId: the jobs of the response.
getBatch(batchId) ==
  { [ jobId |-> j, vibeId |-> stagingJobs[j].vibeId, status |-> stagingJobs[j].status,
      outputImageUrl |-> stagingJobs[j].outputImageUrl,
      qualityFlags |-> stagingJobs[j].qualityFlags, error |-> stagingJobs[j].error ] :
      j \in {k \in DOMAIN stagingJobs : stagingJobs[k].batchId = batchId} }

\* The handler of request r has answered 202 with {batchId, jobs}.
Accepted(r) == req[r].pc = "responded" /\ req[r].response = 202

\* How many times job j has been enqueued: it is in the queue or has been
\* taken from it.
TimesEnqueued(j) ==
  Cardinality({i \in 1..Len(queue) : queue[i].jobId = j})
  + (IF j \in DOMAIN proc THEN 1 ELSE 0)

BatchAsSubmitted ==
  /\ \A j \in DOMAIN stagingJobs : TimesEnqueued(j) = 1
  /\ \A j \in JobIds : TimesEnqueued(j) > 0 => j \in DOMAIN stagingJobs
  /\ \A i, k \in 1..Len(queue) : i < k => queue[i].jobId < queue[k].jobId
  /\ \A r \in Requests :
       Accepted(r) =>
         LET L == IF req[r].fields.vibes.kind = "absent"
                  THEN VIBES ELSE req[r].fields.vibes.items
             jobs == req[r].jobs
         IN /\ Len(jobs) = Len(L)
            /\ \A i \in 1..Len(jobs) :
                 /\ jobs[i].vibeId = L[i]
                 /\ jobs[i].status = "queued"
                 /\ jobs[i].jobId \in DOMAIN stagingJobs
                 /\ stagingJobs[jobs[i].jobId].batchId = r
                 /\ stagingJobs[jobs[i].jobId].vibeId = L[i]
                 /\ \A k \in 1..Len(jobs) : i < k => jobs[i].jobId < jobs[k].jobId
            /\ {g.jobId : g \in getBatch(r)} = {jobs[i].jobId : i \in 1..Len(jobs)}
  /\ SelectVibes([kind |-> "absent", items |-> << >>]) = [ok |-> TRUE, items |-> VIBES]
  /\ Len(VIBES) = 8

PersistedAsQueued ==
  \A j \in (DOMAIN stagingJobs') \ (DOMAIN stagingJobs) :
    /\ stagingJobs'[j].status = "queued"
    /\ j \in DOMAIN jobState'
    /\ j \notin DOMAIN jobState

InvalidForm(f) ==
  \/ f.roomType \notin ROOM_TYPES
  \/ f.vibes.kind \in {"badjson", "notarray"}
  \/ /\ f.vibes.kind = "array"
     /\ \E i \in 1..Len(f.vibes.items) : f.vibes.items[i] \notin VibeSet

JobsOfBatch(r) == {j \in DOMAIN stagingJobs : stagingJobs[j].batchId = r}

\* Request r submitted 2 vibes whose built prompts pass the prompt gate.
TwoVibesSubmitted(r) ==
  /\ req[r].pc # "idle"
  /\ Len(req[r].selectedVibes) = 2
  /\ \A i \in 1..2 :
       PromptFlagsTable[buildStagingPrompt(req[r].selectedVibes[i], req[r].roomType,
                                           req[r].roomNotes, req[r].strictness)] = << >>

\* Something failed for the batch of request r: a persistence call threw
\* (in the handler or in process), or a provider call failed or came back
\* with output flags.
Disturbed(r) ==
  \/ req[r].response = 400
  \/ \E j \in JobsOfBatch(r) :
       \/ j \in DOMAIN proc /\ proc[j].pc \in {"rejected", "finishedRejected"}
       \/ \E i \in 1..Len(providerCalls[j]) :
            \/ providerCalls[j][i].settled = "rejected"
            \/ assessOutputMetadataIfAvailable(providerCalls[j][i].providerMeta) # << >>

BatchDone(r) ==
  /\ Cardinality(getBatch(r)) = 2
  /\ \A g \in getBatch(r) : g.status = "done" /\ g.outputImageUrl # NoUrl

\* C19: a batch of 2 vibes whose prompts pass the gate leads, as long as no
\* provider call and no persistence call fails for it and the provider
\* reports no flag, to a state where the batch status query returns 2 jobs,
\* both done, each with an output image.
C19_BatchCompletes ==
  \A r \in Requests : TwoVibesSubmitted(r) ~> (Disturbed(r) \/ BatchDone(r))

C19_Witness ==
  \E r \in Requests :
    /\ TwoVibesSubmitted(r)
    /\ ~Disturbed(r)
    /\ BatchDone(r)
    /\ \A j \in JobsOfBatch(r) : proc[j].pc = "finishedResolved"

\* The negative prompt holds the base exclusion list and every
\* forbidden-change term of the vibe.
HoldsExclusions(negativePrompt, vibeId) ==
  /\ Includes(negativePrompt, BASE_NEGATIVE_PROMPT)
  /\ \A i \in 1..Len(VIBE_DEFINITIONS[vibeId].forbiddenChanges) :
       Includes(negativePrompt, VIBE_DEFINITIONS[vibeId].forbiddenChanges[i])

\* C20: the negative prompt stored for a job and every negative prompt sent
\* to the provider for it hold the base exclusion list and every
\* forbidden-change term of the job's vibe.
C20_NegativePromptKeepsExclusions ==
  \A j \in DOMAIN stagingJobs :
    /\ HoldsExclusions(stagingJobs[j].negativePromptUsed, stagingJobs[j].vibeId)
    /\ \A i \in 1..Len(providerCalls[j]) :
         HoldsExclusions(providerCalls[j][i].negativePrompt, stagingJobs[j].vibeId)

C20_Witness ==
  \E j \in DOMAIN stagingJobs :
    /\ Len(providerCalls[j]) = 2
    /\ stagingJobs[j].negativePromptUsed = providerCalls[j][2].negativePrompt
    /\ stagingJobs[j].negativePromptUsed # providerCalls[j][1].negativePrompt
    /\ Includes(stagingJobs[j].negativePromptUsed, ESCALATION)

(***************************************************************************)
(* Properties of the prompt builder, the quality gate and the scoring      *)
(* engine.                                                                 *)
(***************************************************************************)
\* The strictness a call of buildStagingPrompt runs with.
StrictnessOf(input) ==
  IF input.strictness = Undefined THEN "normal" ELSE input.strictness

\* C21: for each of the 8 vibes, every room type, both strictness values and
\* with or without room notes, the prompt returned by buildStagingPrompt
\* contains the hard-constraint sentence verbatim and the negativePrompt
\* contains every forbidden-change term of the vibe; the negativePrompt
\* contains "ABSOLUTELY NO ARCHITECTURAL CHANGES" exactly when strictness is
\* strict.
C21_PromptCarriesConstraints ==
  (promptCall.output.kind = "returned" /\ promptCall.input.vibeId \in VibeSet) =>
    LET input == promptCall.input
        built == promptCall.output.value
        forbidden == VIBE_DEFINITIONS[input.vibeId].forbiddenChanges
    IN /\ Includes(built.prompt, HARD_CONSTRAINT_BLOCK)
       /\ \A i \in 1..Len(forbidden) :
            Includes(built.negativePrompt, forbidden[i])
       /\ Includes(built.negativePrompt,
                   <<"ABSOLUTELY", "NO", "ARCHITECTURAL", "CHANGES">>)
            <=> (StrictnessOf(input) = "strict")

C21_Witness ==
  /\ promptCall.output.kind = "returned"
  /\ promptCall.input.vibeId = "Nomad"
  /\ promptCall.input.strictness = "strict"
  /\ promptCall.input.optionalRoomNotes # << >>
  /\ Includes(promptCall.output.value.negativePrompt, <<"sterile", "minimalism">>)

\* C22: given a vibe id that is none of the 8 known vibes, the prompt builder
\* does not fail: it returns the prompt pair built from the "Classicist"
\* definition.
C22_UnknownVibeFallsBack ==
  (/\ promptCall.output.kind \in {"returned", "threw"}
   /\ promptCall.input.vibeId \notin VibeSet) =>
    LET input == promptCall.input
    IN promptCall.output =
         Returns(buildStagingPrompt("Classicist", input.roomType,
                                    input.optionalRoomNotes, StrictnessOf(input)))

\* text contains needle when the case of the letters is ignored.
ContainsIgnoringCase(text, needle) ==
  \E i \in 0..(Len(text) - Len(needle)) :
    \A k \in 1..Len(needle) : ToLowerWord(text[i + k]) = ToLowerWord(needle[k])

HasFlag(flags, flag) == \E i \in 1..Len(flags) : flags[i] = flag

\* C23: for every prompt and negative prompt, the list returned by
\* assessPromptForBannedTerms contains missing_hard_constraint_block if the
\* prompt does not contain the hard-constraint sentence verbatim, contains
\* renovation_keyword_in_prompt:<term> for every renovation term the prompt
\* contains in any case, and contains negative_prompt_not_strict_enough if
\* the negative prompt mentions, in any case, neither "no architectural
\* changes" nor "change layout".
C23_GateFlagsWhatItMust ==
  gateCall.output.kind = "returned" =>
    LET prompt == gateCall.input.prompt
        negativePrompt == gateCall.input.negativePrompt
        flags == gateCall.output.value
    IN /\ ~Includes(prompt, HARD_CONSTRAINT_BLOCK)
            => HasFlag(flags, <<"missing_hard_constraint_block">>)
       /\ \A i \in 1..Len(RENOVATION_TERMS) :
            ContainsIgnoringCase(prompt, RENOVATION_TERMS[i])
              => HasFlag(flags, <<"renovation_keyword_in_prompt">> \o RENOVATION_TERMS[i])
       /\ (/\ ~ContainsIgnoringCase(negativePrompt, <<"no", "architectural", "changes">>)
           /\ ~ContainsIgnoringCase(negativePrompt, <<"change", "layout">>))
            => HasFlag(flags, <<"negative_prompt_not_strict_enough">>)

C23_Witness ==
  /\ gateCall.output.kind = "returned"
  /\ ~Includes(gateCall.input.prompt, HARD_CONSTRAINT_BLOCK)
  /\ Includes(gateCall.input.prompt, <<"KNOCK", "DOWN", "WALL">>)
  /\ gateCall.input.negativePrompt = <<"no", "renovation">>
  /\ HasFlag(gateCall.output.value, <<"missing_hard_constraint_block">>)
  /\ HasFlag(gateCall.output.value, <<"renovation_keyword_in_prompt", "knock", "down", "wall">>)
  /\ HasFlag(gateCall.output.value, <<"negative_prompt_not_strict_enough">>)

\* C24: for each of the 8 vibes v, computeTasteScore of a profile whose only
\* counted key is v, with a positive count, and the vibe v is 100; and
\* computeTasteScore of an absent profile is 0.
C24_SingleVibeProfileScores100 ==
  scoreCall.output.kind = "returned" =>
    LET profile == scoreCall.input.tasteProfileCounts
        vibe == scoreCall.input.propertyVibe
    IN /\ (/\ profile.defined
           /\ vibe \in VibeSet
           /\ DOMAIN profile.entries = {vibe}
           /\ profile.entries[vibe] > 0) => scoreCall.output.value = 100
       /\ ~profile.defined => scoreCall.output.value = 0

C24_Witness ==
  /\ scoreCall.output = Returns(100)
  /\ scoreCall.input.propertyVibe = "Curator"
  /\ scoreCall.input.tasteProfileCounts = Present([k \in {"Curator"} |-> 5])

\* r is n / d rounded to the nearest integer, halves up (d > 0).
IsRounded(r, n, d) == 2 * r * d - d <= 2 * n /\ 2 * n < 2 * r * d + d

\* C25: computeTasteScore is total: for every profile (absent, empty, of
\* total zero, with keys that are no vibes) and every vibe argument (null,
\* undefined, "Unclassified", unknown names) it returns, without throwing, an
\* integer in 0..100; 0 for an absent or empty profile and for a null,
\* "Unclassified" or unknown vibe (and for a profile of total zero);
\* otherwise round(100 * count of the vibe / total of the counts), clamped
\* to 0..100.
C25_TasteScoreIsTotal ==
  scoreCall.output.kind # "pending" =>
    LET profile == scoreCall.input.tasteProfileCounts
        vibe == scoreCall.input.propertyVibe
        total == SumValues(profile.entries)
    IN /\ scoreCall.output.kind \in {"none", "returned"}
       /\ scoreCall.output.kind = "returned" =>
            LET score == scoreCall.output.value
            IN /\ score \in 0..100
               /\ IF \/ ~profile.defined
                     \/ DOMAIN profile.entries = {}
                     \/ vibe \notin VibeSet
                     \/ total = 0
                  THEN score = 0
                  ELSE \E r \in 0..100 :
                         /\ IsRounded(r, 100 * ValueOrZero(profile.entries, vibe), total)
                         /\ score = r

C25_Witness ==
  /\ scoreCall.output = Returns(67)
  /\ scoreCall.input.propertyVibe = "Nomad"
  /\ "Cottage" \in DOMAIN scoreCall.input.tasteProfileCounts.entries
  /\ SumValues(scoreCall.input.tasteProfileCounts.entries) = 3

\* The sum of the values of a vibe vector over the 8 vibes.
VectorSum(vector) == SumOver(vector, VIBES)

\* The sum is 1 within 0.001 (the vector is in units of 0.0001).
SumsToOne(vector) == VectorSum(vector) \in (10000 - 10)..(10000 + 10)

\* C26 as stated: for every list of swipe events the vector returned by
\* computeBuyerVibeVector has exactly the 8 vibes as keys, its values sum to
\* 1 (within 0.001) whenever some event has a positive weight, and to 0 when
\* all the weights floor to 0.
C26_SumIsOneWhenAnEventIsPositive ==
  buyerCall.output.kind = "returned" =>
    LET events == buyerCall.input
        vector == buyerCall.output.value.vector
    IN /\ DOMAIN vector = VibeSet
       /\ (\E i \in 1..Len(events) : ACTION_WEIGHTS[events[i].action] > 0)
            => SumsToOne(vector)
       /\ (\A v \in VibeSet : RawWeights(events)[v] <= 0)
            => VectorSum(vector) = 0

\* C26, amended: the vector has exactly the 8 vibes as keys; its values sum
\* to 1 (within 0.001) whenever the weights accumulated for some known vibe
\* come to a positive total, and to 0 when the accumulated weight of every
\* vibe floors to 0.
C26_VectorSumsToOneOrZero ==
  buyerCall.output.kind = "returned" =>
    LET events == buyerCall.input
        vector == buyerCall.output.value.vector
    IN /\ DOMAIN vector = VibeSet
       /\ (\E v \in VibeSet : RawWeights(events)[v] > 0) => SumsToOne(vector)
       /\ (\A v \in VibeSet : RawWeights(events)[v] <= 0)
            => VectorSum(vector) = 0

\* Three vibes liked once each: a third each, 0.9999 in all.
C26_Witness ==
  /\ buyerCall.output.kind = "returned"
  /\ Len(buyerCall.input) = 3
  /\ \A v \in {"Purist", "Curator", "Nomad"} :
       buyerCall.output.value.vector[v] = 3333
  /\ VectorSum(buyerCall.output.value.vector) = 9999

\* The weight a vector gives a vibe: 0 for a vibe it leaves out.
WeightOf(vector, v) == ValueOrZero(vector.entries, v)

IsZeroVector(vector) == vector.defined /\ \A v \in VibeSet : WeightOf(vector, v) = 0

\* C27: computeVectorMatchScore(v, v) = 100 for every vector v of
\* non-negative weights that is not all zero; the score of any vector with
\* the zero vector, and with an absent vector, is 0; for all vectors a and b
\* the score is an integer in 0..100 and is the same for (a, b) and (b, a).
C27_MatchScoreIsCosine ==
  matchCall.output.kind = "returned" =>
    LET a == matchCall.input.buyerVector
        b == matchCall.input.listingVector
        score == matchCall.output.value
    IN /\ (/\ a.defined /\ a = b /\ ~IsZeroVector(a)
           /\ \A v \in VibeSet : WeightOf(a, v) >= 0) => score = 100
       /\ (IsZeroVector(a) \/ IsZeroVector(b)) => score = 0
       /\ (~a.defined \/ ~b.defined) => score = 0
       /\ score \in 0..100
       /\ score = computeVectorMatchScore(b, a)

C27_Witness ==
  /\ matchCall.output = Returns(100)
  /\ matchCall.input.buyerVector = Present(("Purist" :> 1) @@ ("Nomad" :> 2))
  /\ matchCall.input.listingVector = matchCall.input.buyerVector

\* All the text of a listing, as given.
ListingText(input) ==
  OrEmpty(input.description) \o OrEmpty(input.photosText)
    \o JSONStringify(input.structured)

\* The number of the keyword and visual-cue terms of a vibe that occur in the
\* text of the listing, in any case.
MatchCount(input, vibe) ==
  Cardinality({i \in 1..Len(TermsOf(vibe)) :
                 ContainsIgnoringCase(ListingText(input), TermsOf(vibe)[i])})

\* max(0.01, number of matching terms), in units of 0.01.
FlooredScore(input, vibe) == Max(1, 100 * MatchCount(input, vibe))

ScoreTotal(input) ==
  SumOver([v \in VibeSet |-> FlooredScore(input, v)], VIBES)

C29_EveryWeightIsPositive ==
  listingCall.output.kind = "returned" =>
    \A v \in VibeSet : listingCall.output.value.vibeVector[v] > 0

\* No component of the vector returned is negative.
VectorIsNonNegative ==
  buyerCall.output.kind = "returned" =>
    \A v \in VibeSet : buyerCall.output.value.vector[v] >= 0

\* A step that appends one "nope" event for the vibe v and computes the
\* vector again leaves v no heavier and every other vibe no lighter.
NopeOnlyLowersItsVibe ==
  \A v \in VibeSet :
    (/\ buyerCall.output.kind = "returned"
     /\ buyerCall'.output.kind = "returned"
     /\ buyerCall'.input = Append(buyerCall.input, [vibe |-> v, action |-> "nope"]))
      => LET before == buyerCall.output.value.vector
             after == buyerCall'.output.value.vector
         IN /\ after[v] <= before[v]
            /\ \A u \in VibeSet \ {v} : after[u] >= before[u]

\* C30: every component of the vector returned by computeBuyerVibeVector is
\* non-negative, and appending one "nope" event for a vibe v to any event
\* list never increases the weight of v and never decreases the weight of
\* any other vibe.
C30_NopeIsFlooredAtZero ==
  []VectorIsNonNegative /\ [][NopeOnlyLowersItsVibe]_vars

\* Purist and Nomad liked, then Purist noped: Purist is down from a half to
\* a third, Nomad up from a half to two thirds.
C30_Witness ==
  /\ buyerCall.output.kind = "returned"
  /\ buyerCall.input =
       << [vibe |-> "Purist", action |-> "like"], [vibe |-> "Nomad", action |-> "like"],
          [vibe |-> "Purist", action |-> "nope"] >>
  /\ buyerCall.output.value.vector["Purist"] = 3333
  /\ buyerCall.output.value.vector["Nomad"] = 6667

(***************************************************************************)
(* Properties of the job life cycle and of the queue discipline.           *)
(***************************************************************************)
\* The statuses in the order the queue writes them.
StatusStep(s, t) ==
  \/ s = t
  \/ s = "queued" /\ t = "running"
  \/ s = "running" /\ t \in TerminalStatuses

\* The jobs waiting in the queue.
Queued == {queue[i].jobId : i \in 1..Len(queue)}

\* A job is queued in the state map exactly while it waits in the queue, and
\* neither the prompt gate nor the provider has seen a job whose row is
\* still queued.
RunningIsWrittenOnDequeue ==
  \A j \in DOMAIN jobState :
    /\ jobState[j].status = "queued" <=> j \in Queued
    /\ j \in Queued => j \notin DOMAIN proc
    /\ j \in DOMAIN proc => jobState[j].status # "queued"
    /\ stagingJobs[j].status = "queued" =>
         /\ providerCalls[j] = << >>
         /\ j \in DOMAIN proc =>
              proc[j].pc \in {"updRunning", "rejected", "finishedRejected"}

\* The statuses of the state map and of the row move along
\* queued -> running -> {done, failed, flagged} only; an entry of the state
\* map is created queued (and is running at the end of the step when
\* enqueue's pump dequeues the job at once), a row is created queued.
StatusMovesForward ==
  \A j \in JobIds :
    /\ IF j \in DOMAIN jobState
       THEN StatusStep(jobState[j].status, jobState'[j].status)
       ELSE j \in DOMAIN jobState' =>
              \/ jobState'[j].status = "queued" /\ j \in Queued'
              \/ jobState'[j].status = "running" /\ Dequeued(j)
    /\ IF j \in DOMAIN stagingJobs
       THEN StatusStep(stagingJobs[j].status, stagingJobs'[j].status)
       ELSE j \in DOMAIN stagingJobs' => stagingJobs'[j].status = "queued"
    /\ (j \in DOMAIN jobState /\ jobState[j].status # "running"
        /\ jobState'[j].status = "running") => Dequeued(j)
    /\ Dequeued(j) => jobState'[j].status = "running"

\* C31: the status history of every job, in the state map and in the row, is
\* queued, then running, then one of done, failed, flagged: running is
\* written when the job is dequeued, before the prompt gate and before any
\* provider call, no other transition occurs and running is entered once.
C31_StatusHistory == []RunningIsWrittenOnDequeue /\ [][StatusMovesForward]_vars

C31_Witness ==
  \E j \in DOMAIN proc, k \in DOMAIN jobState :
    /\ concurrency = 1
    /\ proc[j].pc = "resolved"
    /\ jobState[j].status = "done" /\ stagingJobs[j].status = "done"
    /\ k \in Queued
    /\ jobState[k].status = "queued" /\ stagingJobs[k].status = "queued"

\* The jobs enqueued so far: enqueue creates the entry of the state map.
Enqueued == DOMAIN jobState

\* Job ids follow the order of the enqueue calls.
EnqueuedInIdOrder ==
  \A j \in Enqueued' \ Enqueued : \A k \in Enqueued : k < j

\* A job that has been dequeued has every job enqueued before it dequeued as
\* well, and the jobs wait in the order they were enqueued in.
DequeuedInEnqueueOrder ==
  /\ \A j, k \in Enqueued : (j < k /\ k \in DOMAIN proc) => j \in DOMAIN proc
  /\ \A a, b \in 1..Len(queue) : a < b => queue[a].jobId < queue[b].jobId

\* C32: jobs start in FIFO order: when A is enqueued before B, B is not
\* dequeued while A waits, whatever the interleaving of the enqueue calls
\* and of the ends of the processes.
C32_StartsInFifoOrder == []DequeuedInEnqueueOrder /\ [][EnqueuedInIdOrder]_vars

C32_Witness ==
  /\ concurrency = 1
  /\ DOMAIN proc = {1, 2}
  /\ proc[1].pc \in Finished
  /\ proc[2].pc = "updRunning"
  /\ Len(queue) = 1 /\ queue[1].jobId = 3
  /\ stagingJobs[2].batchId # stagingJobs[3].batchId

\* The assets linked to job j.
AssetsOf(j) == {a \in stagingAssets : a.stagingJobId = j}

RowIsDone(j) == j \in DOMAIN stagingJobs /\ stagingJobs[j].status = "done"

\* Job j has one asset, and the asset holds the output image of the row.
HasItsAsset(j) ==
  /\ Cardinality(AssetsOf(j)) = 1
  /\ \A a \in AssetsOf(j) : a.imageUrl = stagingJobs[j].outputImageUrl

\* A persistence call of process has thrown for job j after the done update.
AssetStepFailed(j) ==
  /\ j \in DOMAIN proc
  /\ proc[j].pc \in {"rejected", "finishedRejected"}

\* C33: every job whose row becomes done eventually has exactly one asset
\* linked to it, holding the output image of the job.
C33_DoneJobGetsItsAsset ==
  \A j \in JobIds : RowIsDone(j) ~> HasItsAsset(j)

\* What the code does: the asset follows unless db.select or db.insert
\* throws after the done update.
DoneJobGetsItsAssetUnlessDbFails ==
  \A j \in JobIds : RowIsDone(j) ~> (HasItsAsset(j) \/ AssetStepFailed(j))

\* The positions of process inside an updateJob call, at its await.
UpdatePcs ==
  {"updRunning", "updNegative", "updPromptFlagged", "updFailed",
   "updOutputFlagged", "updDone"}

\* The step is the return of an updateJob call of job j: the await of
\* db.update has resolved and process goes on (a thrown update rejects
\* process, or is caught in the loop, which then ends with the failed
\* update).
UpdateReturned(j) ==
  /\ j \in DOMAIN proc
  /\ proc[j].pc \in UpdatePcs
  /\ proc'[j].pc \notin {proc[j].pc, "rejected"}
  /\ ~(proc[j].pc = "updNegative" /\ proc'[j].pc = "updFailed")

\* The status of the state map is the status of the row or the next one.
MemoryIsNotBehind ==
  \A j \in DOMAIN stagingJobs :
    /\ j \in DOMAIN jobState
    /\ StatusStep(stagingJobs[j].status, jobState[j].status)

\* When updateJob returns, the row holds the status the state map holds;
\* the status of a row only moves forward.
RowFollowsMemory ==
  \A j \in DOMAIN stagingJobs :
    /\ UpdateReturned(j) => stagingJobs'[j].status = jobState[j].status
    /\ StatusStep(stagingJobs[j].status, stagingJobs'[j].status)
    /\ stagingJobs'[j].status # stagingJobs[j].status => UpdateReturned(j)

\* C34: when an updateJob call has returned, the status of the state map
\* and the status of the row are the same; in between the state map is
\* ahead of the row by at most the update under way and never behind it, and
\* the row only shows queued, then running, then the final status.
C34_RowMirrorsStateMap == []MemoryIsNotBehind /\ [][RowFollowsMemory]_vars

C34_Witness ==
  \E j, k \in DOMAIN proc :
    /\ proc[j].pc = "finishedResolved"
    /\ jobState[j].status = "failed" /\ stagingJobs[j].status = "failed"
    /\ proc[k].pc = "updDone"
    /\ jobState[k].status = "done" /\ stagingJobs[k].status = "running"

(***************************************************************************)
(* Properties of the propagation of failures.                              *)
(***************************************************************************)
\* The provider calls of job j that failed.
FailedCalls(j) ==
  {i \in 1..Len(providerCalls[j]) : providerCalls[j][i].settled = "rejected"}

\* process is past the attempt loop for job j.
LoopEnded(j) ==
  proc[j].pc \notin {"updRunning", "updNegative", "sleeping", "calling"}

\* The message of the last failure the attempt loop caught for job j, none
\* of whose provider calls succeeded: the one of the second provider call,
\* or the one of the update that threw before it.
LastFailure(j) ==
  IF Len(providerCalls[j]) = 2 THEN providerCalls[j][2].message
  ELSE DbErrorMessage

\* The step enqueues a job: enqueue returns its id to the handler, which
\* goes on to the next vibe or to the 202 response.
EnqueueReturns ==
  \A j \in Enqueued' \ Enqueued :
    \E r \in Requests :
      /\ req[r].pc = "inserting"
      /\ req'[r].jobs = Append(req[r].jobs,
                               [jobId |-> j, vibeId |-> stagingJobs'[j].vibeId,
                                status |-> "queued"])
      /\ \/ req'[r].pc = "inserting"
         \/ req'[r].pc = "responded" /\ req'[r].response = 202

LastingFailureIsRecorded ==
  \A j \in DOMAIN proc :
    (FailedCalls(j) # {} /\ ~Succeeded(j) /\ LoopEnded(j)) =>
      /\ jobState[j].status = "failed"
      /\ jobState[j].error = LastFailure(j)
      /\ stagingJobs[j].status \in {"running", "failed"}
      /\ stagingJobs[j].status = "failed" => stagingJobs[j].error = LastFailure(j)
      /\ Returned(j) => stagingJobs[j].status = "failed"

RunningCountsProcesses ==
  /\ running >= 0
  /\ running = Cardinality(Active)
  /\ \A j \in Enqueued : (j \in Queued) # (j \in DOMAIN proc)
  /\ Cardinality(Queued) = Len(queue)
  /\ Queued \cup DOMAIN proc = Enqueued

\* Every invocation of process is for a job taken from the queue (or
\* enqueued in the same step), no job leaves the queue for anything else, and
\* no invocation is started over.
ProcessedOnce ==
  \A j \in Enqueued' :
    /\ Dequeued(j) => (j \in Queued \/ j \notin Enqueued)
    /\ j \in Queued => (j \in Queued' \/ Dequeued(j))
    /\ j \in DOMAIN proc =>
         /\ j \in DOMAIN proc'
         /\ proc'[j].job = proc[j].job
         /\ proc'[j].pc = "updRunning" => proc[j] = proc'[j]

\* C36: running is never negative and counts the process invocations under
\* way, and every enqueued job is passed to process exactly once, whether
\* process resolves or rejects.
C36_RunningCountsAndNoJobLost == []RunningCountsProcesses /\ [][ProcessedOnce]_vars

C36_Witness ==
  /\ concurrency = 1
  /\ running = 0
  /\ queue = << >>
  /\ DOMAIN proc = 1..MaxQueued
  /\ proc[1].pc = "finishedRejected"
  /\ proc[2].pc = "finishedResolved"
  /\ proc[3].pc = "finishedRejected"

(***************************************************************************)
(* Properties of the batch submission.                                     *)
(***************************************************************************)
\* The handler of request r has sent an error response.
Refused(r) == req[r].pc = "responded" /\ req[r].response # 202

\* C37: when a submission is answered with an error, no job of its batch
\* has been persisted or enqueued.
C37_RefusedBatchLeavesNothing ==
  \A r \in Requests :
    Refused(r) =>
      /\ JobsOfBatch(r) = {}
      /\ \A j \in Enqueued : stagingJobs[j].batchId # r

\* The gate has been applied to the pair the builder returned.
GatedBuiltPrompt ==
  /\ promptCall.output.kind = "returned"
  /\ gateCall.output.kind = "returned"
  /\ gateCall.input = promptCall.output.value

AtMostOneLeadPerPair ==
  \A i, k \in 1..Len(leads) :
    (leads[i].buyerId = leads[k].buyerId /\ leads[i].propertyId = leads[k].propertyId)
      => i = k

LeadCreatedOnlyWhenDue ==
  \A s \in SwipeRequests :
    SwipeAt(s, "createLead") => LeadIsDue(swipe[s].action, swipe[s].matchScore)

\* C39: whatever swipe requests were made, overlapping ones for the same
\* buyer and listing included, table leads holds at most one lead of each
\* pair of a buyer and a listing, and a handler creates a lead only when
\* its action is save or its match score is at least 85.
C39_AtMostOneLeadPerPair == AtMostOneLeadPerPair /\ LeadCreatedOnlyWhenDue

(***************************************************************************)
(* Properties of the plans of the staging planner, as the audit of         *)
(* audit.run.ts reads them.                                                *)
(***************************************************************************)

PlanMade == planCall.output.kind = "returned"

SelectedIdsOf(plan) == [i \in 1..Len(plan.selected_items) |-> plan.selected_items[i].item_id]

\* Audit rule 2: no item_id twice in selected_items.
NoDuplicateSelected(plan) ==
  \A i, k \in 1..Len(plan.selected_items) :
    plan.selected_items[i].item_id = plan.selected_items[k].item_id => i = k

\* Audit rule 3: every placement is of a selected item.
PlacementsAreSelected(plan) ==
  \A i \in 1..Len(plan.placement_plan) :
    ArrayIncludes(SelectedIdsOf(plan), plan.placement_plan[i].item_id)

\* catalogById.get(id)?.category: the Map keeps the last item of an id.
CategoryById(catalog, id) ==
  LET at == {i \in 1..Len(catalog.items) : catalog.items[i].id = id}
  IN catalog.items[CHOOSE i \in at : \A k \in at : k <= i].category

\* Audit rule 5: no zone holds two large items of different ids.
NoLargeZoneCollision(plan, catalog) ==
  \A i, k \in 1..Len(plan.placement_plan) :
    LET p == plan.placement_plan[i]
        q == plan.placement_plan[k]
    IN (/\ isLargeCategory(CategoryById(catalog, p.item_id))
        /\ isLargeCategory(CategoryById(catalog, q.item_id))
        /\ p.zone = q.zone)
         => p.item_id = q.item_id

DistinctIds(catalog) ==
  \A i, k \in 1..Len(catalog.items) : catalog.items[i].id = catalog.items[k].id => i = k

\* The rules that do not look up a category.
IdsSelectedOnceAndAtMostSix(plan, validation) ==
  /\ validation.ok
  /\ NoDuplicateSelected(plan)
  /\ PlacementsAreSelected(plan)
  /\ Len(plan.selected_items) <= 6

\* C40 as stated: for every catalog and room, the plan of
\* generateHeuristicPlan has only ids of the catalog, selects no id twice,
\* places selected items only, selects at most 6 items and puts no two
\* different large-category items in one zone.
C40_PlanSatisfiesAuditRules ==
  PlanMade =>
    /\ IdsSelectedOnceAndAtMostSix(planCall.output.value.plan,
                                   planCall.output.value.validation)
    /\ NoLargeZoneCollision(planCall.output.value.plan, planCall.input.catalog)

\* C40, amended: the plan has only ids of the catalog, selects no id twice,
\* places selected items only and selects at most 6 items for every catalog
\* and room; no two different large-category items share a zone when the
\* ids of the items of the catalog are distinct.
C40_PlanSatisfiesAuditRulesOfDistinctIds ==
  PlanMade =>
    LET plan == planCall.output.value.plan
        catalog == planCall.input.catalog
    IN /\ IdsSelectedOnceAndAtMostSix(plan, planCall.output.value.validation)
       /\ DistinctIds(catalog) => NoLargeZoneCollision(plan, catalog)

\* Six items are selected from a catalog of distinct ids that has more to
\* offer; the floor lamp and the accent chair stand in different corners.
C40_Witness ==
  /\ PlanMade
  /\ DistinctIds(planCall.input.catalog)
  /\ Len(planCall.input.catalog.items) > 6
  /\ Len(planCall.output.value.plan.selected_items) = 6
  /\ \E i, k \in 1..Len(planCall.output.value.plan.placement_plan) :
       /\ planCall.output.value.plan.placement_plan[i] =
            [ item_id |-> "b", zone |-> "Corner 1", position_notes |-> <<"notes", "of", "b">> ]
       /\ planCall.output.value.plan.placement_plan[k] =
            [ item_id |-> "h", zone |-> "Corner 2", position_notes |-> <<"notes", "of", "h">> ]

====
